---- MODULE Spec2Model ----
(***************************************************************************)
(* A model of the cell engine of jens-hj/cells: the generic Grid, the      *)
(* Occupancy matching relation, Rule construction and matching,            *)
(* Percentage, the ActiveCells tracker, the single-cell edit of            *)
(* mouse_input and the per-tick driver CellWorld::update.                  *)
(*                                                                         *)
(* Conventions.  A Grid<T> is the sequence of its rows (Grid.cells); the   *)
(* code's 0-based (x, y) is row y+1, column x+1 here.  A Result is a       *)
(* record [ok |-> TRUE, val |-> v] or [ok |-> FALSE, err |-> e].  A        *)
(* Percentage (an f32 in [0,1]) is an integer number of millionths, so     *)
(* that EPSILON = 1e-5 is 10.                                              *)
(***************************************************************************)
EXTENDS Integers, Sequences, FiniteSets, TLC

VARIABLES
    rules,              \* the Vec<CellRule> handed to CellWorld::update, by its name
    grid,               \* CellWorld.grid
    active_cells,       \* CellWorld.active_cells
    new_grid,           \* update's local: the shadow copy written by firings
    cells_to_check,     \* update's local: the active cells not yet visited
    next_active_cells,  \* update's local: the ActiveCells taken out of self
    prioritised_rules,  \* update's local: the tick's rule order (indices into rules)
    pc,                 \* "idle" between operations, "loop" inside update's cell loop,
                        \* "pure" in the specifications of the pure functions
    fired,              \* history: the rule firings of the current tick
    skipped,            \* history: active cells of this tick skipped as already affected
    edits,              \* history: number of single-cell edits made so far
    scenario,           \* the bounds of this behaviour: edits allowed, tools at hand
    call,               \* the pure-function call under test (pure specifications)
    ret                 \* its result, NoRet before the call returns

vars == <<rules, grid, active_cells, new_grid, cells_to_check, next_active_cells,
          prioritised_rules, pc, fired, skipped, edits, scenario, call, ret>>

worldVars == <<rules, grid, active_cells, new_grid, cells_to_check, next_active_cells,
               prioritised_rules, pc, fired, skipped, edits, scenario>>

-----------------------------------------------------------------------------
(* Bounds of the model *)

\* largest width / height of a world built in Init of the engine specification
MaxWidth == 2
MaxHeight == 3
\* number of single-cell edits in one behaviour of the engine specification
MaxEdits == 2
\* pure-function inputs: rows and columns of a Vec<Vec<T>>, outputs of a rule,
\* largest x coordinate in a set of cells
MaxRows == 3
MaxCols == 2
MaxOutputs == 2
MaxCoord == 2

-----------------------------------------------------------------------------
(* Small helpers *)

Min(a, b) == IF a < b THEN a ELSE b
Max(a, b) == IF a > b THEN a ELSE b

\* usize::saturating_sub
SaturatingSub(a, b) == IF a > b THEN a - b ELSE 0

\* Iterator::skip(n) and Iterator::take(n) on a sequence
Skip(s, n) == IF n >= Len(s) THEN <<>> ELSE SubSeq(s, n + 1, Len(s))
Take(s, n) == IF n >= Len(s) THEN s ELSE SubSeq(s, 1, n)

Ok(v) == [ok |-> TRUE, val |-> v]
Err(e) == [ok |-> FALSE, err |-> e]
NoRet == [ok |-> FALSE, err |-> "not returned"]

\* all sequences over S of length 0..n
SeqsUpTo(S, n) == UNION {[1..k -> S] : k \in 0..n}

-----------------------------------------------------------------------------
(* crates/percentage *)

\* one = 1.0 in millionths
Unit == 1000000
EPSILON == 10

Clamp(v) == IF v < 0 THEN 0 ELSE IF v > Unit THEN Unit ELSE v

\* Percentage::new
PercentageNew(value) == Clamp(value)

\* Percentage::is_one
IsOne(p) == (IF p - Unit < 0 THEN Unit - p ELSE p - Unit) < EPSILON

RECURSIVE SumSeq(_)
SumSeq(s) == IF s = <<>> THEN 0 ELSE s[1] + SumSeq(Tail(s))

\* impl Sum for Percentage: the raw values are added, the total is clamped
PercentageSum(ps) == PercentageNew(SumSeq(ps))

-----------------------------------------------------------------------------
(* crates/cell_particle: grid.rs *)

\* Grid::validate
GridValidate(cells) ==
    IF Len(cells) = 0 THEN Err("EmptyGrid")
    ELSE IF \E i \in 1..Len(cells) : Len(cells[i]) # Len(cells[1])
         THEN Err("UnequalRowLengths")
         ELSE Ok("unit")

\* Grid::new
GridNew(cells) ==
    IF GridValidate(cells).ok THEN Ok(cells) ELSE GridValidate(cells)

\* Grid::dimensions
Dimensions(g) ==
    [width |-> IF Len(g) = 0 THEN 0 ELSE Len(g[1]), height |-> Len(g)]

\* a faulty access that takes x for the row and y for the column
GridGetSwapped(g, x, y) ==
    IF x + 1 > Len(g) THEN Err("OutOfBounds")
    ELSE IF y + 1 > Len(g[x + 1]) THEN Err("OutOfBounds")
    ELSE Ok(g[x + 1][y + 1])

\* Grid::get
GridGet(g, x, y) ==
    IF y + 1 > Len(g) THEN Err("OutOfBounds")
    ELSE IF x + 1 > Len(g[y + 1]) THEN Err("OutOfBounds")
    ELSE Ok(g[y + 1][x + 1])

\* Grid::get_mut: the same walk as get, over mutable references; the borrow it
\* returns is modelled by the element it points to
GridGetMut(g, x, y) ==
    IF y + 1 > Len(g) THEN Err("OutOfBounds")
    ELSE IF x + 1 > Len(g[y + 1]) THEN Err("OutOfBounds")
    ELSE Ok(g[y + 1][x + 1])

\* Grid::get_subgrid: rows skip(y).take(height), in each row skip(x).take(width);
\* the result is built without validation
GetSubgrid(g, x, y, width, height) ==
    LET rows == Take(Skip(g, y), height)
    IN  Ok([i \in 1..Len(rows) |-> Take(Skip(rows[i], x), width)])

\* a faulty set_subgrid that writes the source at the origin, whatever (x, y)
SetSubgridAtOrigin(g, x, y, src) ==
    LET d == Dimensions(src)
    IN  IF Dimensions(g).width < d.width \/ Dimensions(g).height < d.height
        THEN Err("SubgridBiggerThanGrid")
        ELSE Ok([r \in 1..Len(g) |->
                  [c \in 1..Len(g[r]) |->
                    IF r <= d.height /\ c <= d.width THEN src[r][c] ELSE g[r][c]]])

\* a faulty set_subgrid whose size test takes the offset into account
SetSubgridOffsetTest(g, x, y, src) ==
    LET d == Dimensions(src)
    IN  IF Dimensions(g).width < x + d.width \/ Dimensions(g).height < y + d.height
        THEN Err("SubgridBiggerThanGrid")
        ELSE Ok([r \in 1..Len(g) |->
                  [c \in 1..Len(g[r]) |->
                    IF /\ r > y /\ r <= y + d.height
                       /\ c > x /\ c <= x + d.width
                    THEN src[r - y][c - x]
                    ELSE g[r][c]]])

\* a faulty set_subgrid that puts the rows of the source in the place of the
\* rows of the grid
SetSubgridReplaceRows(g, x, y, src) ==
    LET d == Dimensions(src)
    IN  IF Dimensions(g).width < d.width \/ Dimensions(g).height < d.height
        THEN Err("SubgridBiggerThanGrid")
        ELSE Ok([r \in 1..Len(g) |->
                  IF r > y /\ r <= y + d.height THEN src[r - y] ELSE g[r]])

\* a faulty set_subgrid that wraps the part of the source past the right or
\* bottom edge around to the first columns or rows
SetSubgridWrapping(g, x, y, src) ==
    LET d == Dimensions(src)
        W == Dimensions(g).width
        H == Dimensions(g).height
    IN  IF W < d.width \/ H < d.height
        THEN Err("SubgridBiggerThanGrid")
        ELSE Ok([r \in 1..Len(g) |->
                  [c \in 1..Len(g[r]) |->
                    LET i == (r - 1 - y) % H
                        j == (c - 1 - x) % W
                    IN  IF i < d.height /\ j < d.width
                        THEN src[i + 1][j + 1]
                        ELSE g[r][c]]])

\* Grid::set_subgrid
SetSubgrid(g, x, y, src) ==
    LET d == Dimensions(src)
    IN  IF Dimensions(g).width < d.width \/ Dimensions(g).height < d.height
        THEN Err("SubgridBiggerThanGrid")
        ELSE Ok([r \in 1..Len(g) |->
                  [c \in 1..Len(g[r]) |->
                    IF /\ r > y /\ r <= y + d.height
                       /\ c > x /\ c <= x + d.width
                    THEN src[r - y][c - x]
                    ELSE g[r][c]]])

\* Window { grid, x, y }
MkWindow(g, x, y) == [grid |-> g, x |-> x, y |-> y]

\* a faulty windowed that scans column by column
WindowedColumnMajor(g, window_dimensions) ==
    IF \/ Dimensions(g).height < window_dimensions.height
       \/ Dimensions(g).width < window_dimensions.width
    THEN Err("attempt to subtract with overflow")
    ELSE LET ny == Dimensions(g).height - window_dimensions.height + 1
             nx == Dimensions(g).width - window_dimensions.width + 1
         IN  Ok([n \in 1..(nx * ny) |->
                   MkWindow(GetSubgrid(g, (n - 1) \div ny, (n - 1) % ny,
                                       window_dimensions.width,
                                       window_dimensions.height).val,
                            (n - 1) \div ny, (n - 1) % ny)])

\* the inner map of windowed: the windows of row y, for x in 0..=width - w
WindowedRow(g, window_dimensions, y) ==
    [i \in 1..(Dimensions(g).width - window_dimensions.width + 1) |->
        MkWindow(GetSubgrid(g, i - 1, y, window_dimensions.width,
                            window_dimensions.height).val,
                 i - 1, y)]

\* the outer flat_map of windowed, from row y on: y in 0..=height - h
RECURSIVE WindowedFrom(_, _, _)
WindowedFrom(g, window_dimensions, y) ==
    IF y > Dimensions(g).height - window_dimensions.height THEN <<>>
    ELSE WindowedRow(g, window_dimensions, y) \o WindowedFrom(g, window_dimensions, y + 1)

\* Grid::windowed, collected.  The usize subtractions height - h and width - w
\* overflow when the window is larger than the grid: the iteration panics
\* (with overflow checks) instead of yielding windows.
Windowed(g, window_dimensions) ==
    IF \/ Dimensions(g).height < window_dimensions.height
       \/ Dimensions(g).width < window_dimensions.width
    THEN Err("attempt to subtract with overflow")
    ELSE Ok(WindowedFrom(g, window_dimensions, 0))

-----------------------------------------------------------------------------
(* crates/cell_particle: particle *)

ParticleKind == {"Sand", "Water", "Stone"}

\* ParticleState::from_kind: temperature, pressure and density in thousandths
ParticleStateFromKind(kind) ==
    [temperature |-> 20000, pressure |-> 101325,
     density |-> CASE kind = "Sand" -> 1500
                   [] kind = "Water" -> 1000
                   [] kind = "Stone" -> 2650]

\* Particle::new
ParticleNew(kind) == [kind |-> kind, state |-> ParticleStateFromKind(kind)]

\* a faulty equality that compares the states as well (a derived PartialEq)
ParticleEqDerived(p, q) == p.kind = q.kind /\ p.state = q.state

\* impl PartialEq for Particle
ParticleEq(p, q) == p.kind = q.kind

\* ParticleCell { content: None }; a ParticleCell is modelled by its content
EmptyCell == [kind |-> "None", state |-> [temperature |-> 0, pressure |-> 0, density |-> 0]]

\* ParticleCell { content: Some(Particle::new(kind)) }
CellOf(kind) == ParticleNew(kind)

-----------------------------------------------------------------------------
(* crates/cell_particle: rule/mod.rs *)

OccupiedBy(k) == [tag |-> "OccupiedBy", kind |-> k]
OccupiedByAny == [tag |-> "OccupiedByAny", kind |-> "-"]
Unknown == [tag |-> "Unknown", kind |-> "-"]
Vacant == [tag |-> "Vacant", kind |-> "-"]

\* a faulty comparison: the Vacant arm accepts whatever stands on the other side
OccupancyEqVacantAny(a, b) ==
    CASE a.tag = "OccupiedBy" /\ b.tag = "OccupiedBy" -> a.kind = b.kind
      [] a.tag = "OccupiedByAny" /\ b.tag = "OccupiedByAny" -> TRUE
      [] a.tag = "OccupiedBy" /\ b.tag = "OccupiedByAny" -> TRUE
      [] a.tag = "OccupiedByAny" /\ b.tag = "OccupiedBy" -> TRUE
      [] a.tag = "Unknown" -> TRUE
      [] b.tag = "Unknown" -> TRUE
      [] a.tag = "Vacant" -> TRUE
      [] OTHER -> FALSE

\* a faulty comparison without the (_, Unknown) arm
OccupancyEqOneSided(a, b) ==
    CASE a.tag = "OccupiedBy" /\ b.tag = "OccupiedBy" -> a.kind = b.kind
      [] a.tag = "OccupiedByAny" /\ b.tag = "OccupiedByAny" -> TRUE
      [] a.tag = "OccupiedBy" /\ b.tag = "OccupiedByAny" -> TRUE
      [] a.tag = "OccupiedByAny" /\ b.tag = "OccupiedBy" -> TRUE
      [] a.tag = "Unknown" -> TRUE
      [] a.tag = "Vacant" /\ b.tag = "Vacant" -> TRUE
      [] OTHER -> FALSE

\* a faulty comparison in which OccupiedByAny matches Vacant as well
OccupancyEqAnyVacant(a, b) ==
    CASE a.tag = "OccupiedBy" /\ b.tag = "OccupiedBy" -> a.kind = b.kind
      [] a.tag = "OccupiedByAny" /\ b.tag = "OccupiedByAny" -> TRUE
      [] a.tag = "OccupiedBy" /\ b.tag = "OccupiedByAny" -> TRUE
      [] a.tag = "OccupiedByAny" /\ b.tag = "OccupiedBy" -> TRUE
      [] a.tag = "OccupiedByAny" /\ b.tag = "Vacant" -> TRUE
      [] a.tag = "Vacant" /\ b.tag = "OccupiedByAny" -> TRUE
      [] a.tag = "Unknown" -> TRUE
      [] b.tag = "Unknown" -> TRUE
      [] a.tag = "Vacant" /\ b.tag = "Vacant" -> TRUE
      [] OTHER -> FALSE

\* impl PartialEq for Occupancy: the arms in the order of the match
OccupancyEq(a, b) ==
    CASE a.tag = "OccupiedBy" /\ b.tag = "OccupiedBy" -> a.kind = b.kind
      [] a.tag = "OccupiedByAny" /\ b.tag = "OccupiedByAny" -> TRUE
      [] a.tag = "OccupiedBy" /\ b.tag = "OccupiedByAny" -> TRUE
      [] a.tag = "OccupiedByAny" /\ b.tag = "OccupiedBy" -> TRUE
      [] a.tag = "Unknown" -> TRUE
      [] b.tag = "Unknown" -> TRUE
      [] a.tag = "Vacant" /\ b.tag = "Vacant" -> TRUE
      [] OTHER -> FALSE

\* Rule { input: Input { grid }, output: vec![Output { grid, probability }, ..] }
MkRule(input, output) == [input |-> input, output |-> output]
MkOutput(g, probability) == [grid |-> g, probability |-> probability]

\* a faulty validate that tests the probabilities before the dimensions
RuleValidateUnityFirst(rule) ==
    LET input_dims == Dimensions(rule.input)
        probs == [i \in 1..Len(rule.output) |-> rule.output[i].probability]
    IN  IF ~IsOne(PercentageSum(probs))
        THEN Err("OutputNotInProbabilisticUnity")
        ELSE IF \E i \in 1..Len(rule.output) : Dimensions(rule.output[i].grid) # input_dims
             THEN Err("DimensionMismatch")
             ELSE Ok("unit")

\* a faulty validate that tests the total only when there is an output
RuleValidateSkipEmpty(rule) ==
    LET input_dims == Dimensions(rule.input)
        probs == [i \in 1..Len(rule.output) |-> rule.output[i].probability]
    IN  IF \E i \in 1..Len(rule.output) : Dimensions(rule.output[i].grid) # input_dims
        THEN Err("DimensionMismatch")
        ELSE IF rule.output # <<>> /\ ~IsOne(PercentageSum(probs))
             THEN Err("OutputNotInProbabilisticUnity")
             ELSE Ok("unit")

\* Rule::validate
RuleValidate(rule) ==
    LET input_dims == Dimensions(rule.input)
        probs == [i \in 1..Len(rule.output) |-> rule.output[i].probability]
    IN  IF \E i \in 1..Len(rule.output) : Dimensions(rule.output[i].grid) # input_dims
        THEN Err("DimensionMismatch")
        ELSE IF ~IsOne(PercentageSum(probs))
             THEN Err("OutputNotInProbabilisticUnity")
             ELSE Ok("unit")

\* Rule::new
RuleNew(input, output) ==
    IF RuleValidate(MkRule(input, output)).ok
    THEN Ok(MkRule(input, output))
    ELSE RuleValidate(MkRule(input, output))

\* Rule::dimensions
RuleDimensions(rule) == Dimensions(rule.input)

\* a faulty matches that is content with one matching cell
RuleMatchesAnyCell(rule, g) ==
    IF Dimensions(rule.input) # Dimensions(g) THEN FALSE
    ELSE \E i \in 1..Len(rule.input) : \E j \in 1..Len(rule.input[i]) :
            OccupancyEq(rule.input[i][j], g[i][j])

\* Rule::matches
RuleMatches(rule, g) ==
    IF Dimensions(rule.input) # Dimensions(g) THEN FALSE
    ELSE \A i \in 1..Len(rule.input) : \A j \in 1..Len(rule.input[i]) :
            OccupancyEq(rule.input[i][j], g[i][j])

-----------------------------------------------------------------------------
(* crates/cell_engine: components.rs, ActiveCells *)

\* ActiveCells::new
ActiveCellsNew == [cells |-> {}, to_check_next_frame |-> {}, affected_this_frame |-> {}]

\* ActiveCells::mark_active, for a set of coordinates
MarkActive(ac, cs) == [ac EXCEPT !.cells = @ \cup cs]

\* ActiveCells::mark_for_next_frame, for a set of coordinates
MarkForNextFrame(ac, cs) == [ac EXCEPT !.to_check_next_frame = @ \cup cs]

\* ActiveCells::mark_affected, for a set of coordinates
MarkAffected(ac, cs) == [ac EXCEPT !.affected_this_frame = @ \cup cs]

\* a faulty ActiveCells::update: the accumulators are cleared without the swap
ActiveCellsUpdateNoSwap(ac) ==
    [cells |-> ac.cells,
     to_check_next_frame |-> {},
     affected_this_frame |-> {}]

\* a faulty ActiveCells::update that does not clear affected_this_frame
ActiveCellsUpdateNoClear(ac) ==
    [cells |-> ac.to_check_next_frame,
     to_check_next_frame |-> {},
     affected_this_frame |-> ac.affected_this_frame]

\* a faulty ActiveCells::update that keeps the cells of the tick active
ActiveCellsUpdateKeep(ac) ==
    [cells |-> ac.cells \cup ac.to_check_next_frame,
     to_check_next_frame |-> {},
     affected_this_frame |-> {}]

\* ActiveCells::update: swap cells and to_check_next_frame, clear both accumulators
ActiveCellsUpdate(ac) ==
    [cells |-> ac.to_check_next_frame,
     to_check_next_frame |-> {},
     affected_this_frame |-> {}]


-----------------------------------------------------------------------------
(* crates/cell_engine: systems.rs, setup_rules *)

\* Option<usize>
None == [some |-> FALSE, val |-> 0]
Some(n) == [some |-> TRUE, val |-> n]

\* CellRule { rule, priority }
CellRule(rule, priority) == [rule |-> rule, priority |-> priority]

Sand == OccupiedBy("Sand")
Water == OccupiedBy("Water")

\* the eight rules spawned by setup_rules, in the order of the source; every
\* rule has one output of probability Percentage::new(1.0)
setup_rules ==
    << CellRule(MkRule(<< <<Sand>>, <<Vacant>> >>,
                       << MkOutput(<< <<Vacant>>, <<Sand>> >>, PercentageNew(Unit)) >>), None),
       CellRule(MkRule(<< <<Sand, Unknown>>, <<OccupiedByAny, Vacant>> >>,
                       << MkOutput(<< <<Vacant, Unknown>>, <<OccupiedByAny, Sand>> >>,
                                   PercentageNew(Unit)) >>), None),
       CellRule(MkRule(<< <<Unknown, Sand>>, <<Vacant, OccupiedByAny>> >>,
                       << MkOutput(<< <<Unknown, Vacant>>, <<Sand, OccupiedByAny>> >>,
                                   PercentageNew(Unit)) >>), None),
       CellRule(MkRule(<< <<Water>>, <<Vacant>> >>,
                       << MkOutput(<< <<Vacant>>, <<Water>> >>, PercentageNew(Unit)) >>), Some(0)),
       CellRule(MkRule(<< <<Water, Unknown>>, <<Water, Vacant>> >>,
                       << MkOutput(<< <<Vacant, Unknown>>, <<Water, Water>> >>,
                                   PercentageNew(Unit)) >>), Some(1)),
       CellRule(MkRule(<< <<Unknown, Water>>, <<Vacant, Water>> >>,
                       << MkOutput(<< <<Unknown, Vacant>>, <<Water, Water>> >>,
                                   PercentageNew(Unit)) >>), Some(1)),
       CellRule(MkRule(<< <<Water, Vacant>>, <<OccupiedByAny, OccupiedByAny>> >>,
                       << MkOutput(<< <<Vacant, Water>>, <<OccupiedByAny, OccupiedByAny>> >>,
                                   PercentageNew(Unit)) >>), Some(2)),
       CellRule(MkRule(<< <<Vacant, Water>>, <<OccupiedByAny, OccupiedByAny>> >>,
                       << MkOutput(<< <<Water, Vacant>>, <<OccupiedByAny, OccupiedByAny>> >>,
                                   PercentageNew(Unit)) >>), Some(2)) >>


-----------------------------------------------------------------------------
(* crates/cell_engine: components.rs, CellWorld *)

\* CellWorld::new: Grid::new(vec![vec![ParticleCell::default(); width]; height])
CellWorldNew(width, height) == [r \in 1..height |-> [c \in 1..width |-> EmptyCell]]

\* CellWorld::with_fill
WithFill(g, kind) == [r \in 1..Len(g) |-> [c \in 1..Len(g[r]) |-> CellOf(kind)]]

\* a faulty shuffle that leaves the group in the order of the sort
NoShuffle(s) == {s}

\* all orders of the elements of a sequence (SliceRandom::shuffle)
RECURSIVE Shuffles(_)
Shuffles(s) ==
    IF s = <<>> THEN {<<>>}
    ELSE UNION {{<<s[i]>> \o t :
                   t \in Shuffles(SubSeq(s, 1, i - 1) \o SubSeq(s, i + 1, Len(s)))} :
                i \in 1..Len(s)}

\* the indices (into rs) of the rules that satisfy / do not satisfy
\* priority.is_some(), in the order of rs (Iterator::partition)
RECURSIVE Partition(_, _, _)
Partition(rs, i, want) ==
    IF i > Len(rs) THEN <<>>
    ELSE (IF rs[i].priority.some = want THEN <<i>> ELSE <<>>) \o Partition(rs, i + 1, want)

\* a faulty sort that leaves the prioritized rules in the order of the list
NoSort(rs, s) == s

\* sort_by_key(|rule| rule.priority.unwrap()): a stable sort
RECURSIVE SortByPriority(_, _)
SortByPriority(rs, s) ==
    IF s = <<>> THEN <<>>
    ELSE LET m == CHOOSE i \in 1..Len(s) :
                     /\ \A j \in 1..Len(s) : rs[s[i]].priority.val <= rs[s[j]].priority.val
                     /\ \A j \in 1..(i - 1) : rs[s[j]].priority.val # rs[s[i]].priority.val
         IN  <<s[m]>> \o SortByPriority(rs, SubSeq(s, 1, m - 1) \o SubSeq(s, m + 1, Len(s)))

\* length of the leading run of rules with the priority of the first one
RECURSIVE GroupLen(_, _)
GroupLen(rs, s) ==
    IF Len(s) <= 1 THEN Len(s)
    ELSE IF rs[s[2]].priority.val # rs[s[1]].priority.val THEN 1
    ELSE 1 + GroupLen(rs, Tail(s))

\* "Group and shuffle rules with same priority": every group of equal priority
\* is shuffled and appended, the groups in ascending order of priority
RECURSIVE GroupAndShuffle(_, _)
GroupAndShuffle(rs, ordered_rules) ==
    IF ordered_rules = <<>> THEN {<<>>}
    ELSE LET n == GroupLen(rs, ordered_rules)
         IN  {g \o rest : g \in Shuffles(SubSeq(ordered_rules, 1, n)),
                          rest \in GroupAndShuffle(rs, SubSeq(ordered_rules, n + 1,
                                                              Len(ordered_rules)))}

\* a faulty insertion that appends the rule (Vec::push)
InsertAtEnd(s, insert_pos, e) == s \o <<e>>

\* Vec::insert(insert_pos, rule)
InsertAt(s, insert_pos, e) ==
    SubSeq(s, 1, insert_pos) \o <<e>> \o SubSeq(s, insert_pos + 1, Len(s))

\* "Randomly insert unprioritized rules": one at a time, at random_range(0..=len)
RECURSIVE RandomInsert(_, _)
RandomInsert(base, unprioritized) ==
    IF unprioritized = <<>> THEN {base}
    ELSE UNION {RandomInsert(InsertAt(base, insert_pos, unprioritized[1]),
                             Tail(unprioritized)) :
                insert_pos \in 0..Len(base)}

\* every rule order one call of update can build from the rule list rs
RuleOrders(rs) ==
    UNION {RandomInsert(g, Partition(rs, 1, FALSE)) :
           g \in GroupAndShuffle(rs, SortByPriority(rs, Partition(rs, 1, TRUE)))}

\* a faulty corner that is not centred: the window starts at the active cell
RuleXNoCentre(x, rule) == x

\* "Center the rule window on the particle": the top-left corner
RuleX(x, rule) == SaturatingSub(x, RuleDimensions(rule).width \div 2)
RuleY(y, rule) == SaturatingSub(y, RuleDimensions(rule).height \div 2)

\* the bounds test that lets a rule be evaluated at an active cell
Evaluated(g, x, y, rule) ==
    ~ \/ RuleX(x, rule) + RuleDimensions(rule).width > Dimensions(g).width
      \/ RuleY(y, rule) + RuleDimensions(rule).height > Dimensions(g).height

\* the window read from self.grid
Window(g, x, y, rule) ==
    GetSubgrid(g, RuleX(x, rule), RuleY(y, rule),
               RuleDimensions(rule).width, RuleDimensions(rule).height).val

\* particle_kind_window: Some(kind) => OccupiedBy(kind), None => Vacant
ParticleKindWindow(window) ==
    [i \in 1..Len(window) |-> [j \in 1..Len(window[i]) |->
        IF window[i][j].kind = "None" THEN Vacant ELSE OccupiedBy(window[i][j].kind)]]

\* the rule is evaluated at (x, y) and rule.matches(&particle_kind_window)
MatchesAt(g, x, y, rule) ==
    /\ Evaluated(g, x, y, rule)
    /\ \E particle_kind_window \in {ParticleKindWindow(Window(g, x, y, rule))} :
          RuleMatches(rule, particle_kind_window)

\* a faulty inner loop that goes on after a match: the last matching rule wins
LastMatch(g, rs, order, x, y) ==
    LET matching == {k \in 1..Len(order) : MatchesAt(g, x, y, rs[order[k]].rule)}
    IN  IF matching = {} THEN 0
        ELSE CHOOSE k \in matching : \A j \in matching : k >= j

\* a faulty inner loop that matches against the shadow grid of the tick
FirstMatchShadow(g, rs, order, x, y) ==
    IF \A k \in 1..Len(order) : ~MatchesAt(new_grid, x, y, rs[order[k]].rule) THEN 0
    ELSE CHOOSE k \in 1..Len(order) :
            /\ MatchesAt(new_grid, x, y, rs[order[k]].rule)
            /\ \A j \in 1..(k - 1) : ~MatchesAt(new_grid, x, y, rs[order[j]].rule)

\* the inner loop over prioritised_rules: the position (in order) of the first
\* rule that matches at (x, y), 0 when the loop ends without a match
FirstMatch(g, rs, order, x, y) ==
    IF \A k \in 1..Len(order) : ~MatchesAt(g, x, y, rs[order[k]].rule) THEN 0
    ELSE CHOOSE k \in 1..Len(order) :
            /\ MatchesAt(g, x, y, rs[order[k]].rule)
            /\ \A j \in 1..(k - 1) : ~MatchesAt(g, x, y, rs[order[j]].rule)

\* WeightedIndex::new(probabilities).sample(): an output of positive weight
Choosable(rule) == {o \in 1..Len(rule.output) : rule.output[o].probability > 0}

\* choose_rule_output with output o sampled: the ParticleCell grid to write
ChooseRuleOutput(rule, o, current_grid_window) ==
    [i \in 1..Len(rule.output[o].grid) |-> [j \in 1..Len(rule.output[o].grid[i]) |->
        LET cell == rule.output[o].grid[i][j]
        IN  CASE cell.tag = "OccupiedBy" -> CellOf(cell.kind)
              [] cell.tag \in {"Unknown", "OccupiedByAny"} ->
                    GridGet(current_grid_window, j - 1, i - 1).val
              [] OTHER -> EmptyCell]]

\* a faulty marking that marks the active cell alone
WindowCellsAnchor(x, y, rule) == {<<x, y>>}

\* "Mark all cells in the rule window as affected"
WindowCells(x, y, rule) ==
    {<<RuleX(x, rule) + dx, RuleY(y, rule) + dy>> :
        dx \in 0..(RuleDimensions(rule).width - 1),
        dy \in 0..(RuleDimensions(rule).height - 1)}

\* a faulty marking that leaves out the cells below the block
NextFrameCellsNoBelow(g, x, y) ==
    {<<dx, dy>> : dx \in SaturatingSub(x, 1)..Min(x + 1, Dimensions(g).width - 1),
                  dy \in SaturatingSub(y, 1)..Min(y + 1, Dimensions(g).height - 1)}

\* a faulty marking whose block is not clamped to the grid on the far side
NextFrameCellsUnclamped(g, x, y) ==
    LET block == {<<dx, dy>> : dx \in SaturatingSub(x, 1)..(x + 1),
                               dy \in SaturatingSub(y, 1)..(y + 1)}
    IN  block \cup {<<c[1], c[2] + 1>> : c \in {b \in block : b[2] + 1 < Dimensions(g).height}}

\* "Mark cells for next frame's active set": the clamped 3x3 block around the
\* anchor and, for each of its cells, the cell below when it is inside the grid
NextFrameCells(g, x, y) ==
    LET block == {<<dx, dy>> :
                     dx \in SaturatingSub(x, 1)..Min(x + 1, Dimensions(g).width - 1),
                     dy \in SaturatingSub(y, 1)..Min(y + 1, Dimensions(g).height - 1)}
    IN  block \cup {<<c[1], c[2] + 1>> : c \in {b \in block : b[2] + 1 < Dimensions(g).height}}


\* a rule list with a tie: rules 2 and 3 share priority 1 and match the same
\* cells, rule 1 has the larger priority value 2 although it is first in the
\* list, rule 4 has no priority and two outputs of weight one half
PriorityRules ==
    << CellRule(MkRule(<< <<OccupiedByAny>> >>,
                       << MkOutput(<< <<Vacant>> >>, PercentageNew(Unit)) >>), Some(2)),
       CellRule(MkRule(<< <<Sand>> >>,
                       << MkOutput(<< <<Water>> >>, PercentageNew(Unit)) >>), Some(1)),
       CellRule(MkRule(<< <<Sand>> >>,
                       << MkOutput(<< <<OccupiedBy("Stone")>> >>, PercentageNew(Unit)) >>), Some(1)),
       CellRule(MkRule(<< <<Sand>> >>,
                       << MkOutput(<< <<Sand>> >>, PercentageNew(Unit \div 2)),
                          MkOutput(<< <<Unknown>> >>, PercentageNew(Unit \div 2)) >>), None) >>

\* the three sand rules of setup_rules
SandRules == SubSeq(setup_rules, 1, 3)

\* two CellRules spawned the way setup_rules spawns its rules, CellRule { rule:
\* Rule { input, output }, priority } with the public fields written directly:
\* the output of the first has probability one half, the output of the second
\* is narrower than its input
LiteralRules ==
    << CellRule(MkRule(<< <<Sand>> >>,
                       << MkOutput(<< <<Vacant>> >>, PercentageNew(Unit \div 2)) >>), None),
       CellRule(MkRule(<< <<OccupiedBy("Stone"), Vacant>> >>,
                       << MkOutput(<< <<Vacant>> >>, PercentageNew(Unit)) >>), None) >>

\* a rule list whose rules are the values returned by Rule::new: a rule with
\* an output of weight zero, the fall rule of setup_rules, and a rule of
\* width zero (Grid::new accepts rows of no cells)
CheckedRules ==
    << CellRule(RuleNew(<< <<Vacant>> >>,
                        << MkOutput(<< <<Sand>> >>, PercentageNew(Unit)),
                           MkOutput(<< <<Unknown>> >>, PercentageNew(0)) >>).val, Some(0)),
       CellRule(RuleNew(<< <<Sand>>, <<Vacant>> >>,
                        << MkOutput(<< <<Vacant>>, <<Sand>> >>, PercentageNew(Unit)) >>).val,
                None),
       CellRule(RuleNew(<< <<>> >>,
                        << MkOutput(<< <<>> >>, PercentageNew(Unit)) >>).val, Some(1)) >>

\* Tool::Despawn, or Tool::Spawn(kind) written as the kind
Tool == {"Despawn"} \cup ParticleKind

\* the rule list a name stands for (the variable rules holds the name)
RuleList(name) ==
    CASE name = "SandRules" -> SandRules
      [] name = "PriorityRules" -> PriorityRules
      [] name = "setup_rules" -> setup_rules
      [] name = "LiteralRules" -> LiteralRules
      [] name = "CheckedRules" -> CheckedRules
      [] OTHER -> <<>>

-----------------------------------------------------------------------------
(* The engine as a state machine *)

\* mouse_input: "Mark the cell and its neighbors as active"
EditCells(x, y) ==
    {<<dx, dy>> : dx \in SaturatingSub(x, 1)..(x + 1), dy \in SaturatingSub(y, 1)..(y + 1)}

\* mouse_input with the pointer over (x, y) and the left button pressed; a
\* pointer outside the grid fails get_mut and changes nothing
MouseInput ==
    /\ pc = "idle"
    /\ edits < scenario.edits
    /\ \E x \in 0..Dimensions(grid).width, y \in 0..Dimensions(grid).height,
          tool \in scenario.tools :
          IF GridGet(grid, x, y).ok
          THEN /\ grid' = [grid EXCEPT ![y + 1][x + 1] =
                              IF tool = "Despawn" THEN EmptyCell ELSE CellOf(tool)]
               /\ active_cells' = MarkActive(active_cells, EditCells(x, y))
               /\ edits' = edits + 1
               /\ UNCHANGED <<rules, new_grid, cells_to_check, next_active_cells,
                              prioritised_rules, pc, fired, skipped, scenario, call, ret>>
          ELSE UNCHANGED vars

\* a faulty collection that scans every cell of the grid
CellsToCheckScan(ac) ==
    {<<x, y>> : x \in 0..(Dimensions(grid).width - 1),
                y \in 0..(Dimensions(grid).height - 1)}

\* cells_to_check: self.active_cells.cells.iter().cloned().collect()
CellsToCheck(ac) == ac.cells

\* a faulty start of update whose shadow grid is a fresh empty grid, not a
\* clone of the grid
UpdateStartBlank ==
    /\ pc = "idle"
    /\ new_grid' = CellWorldNew(Dimensions(grid).width, Dimensions(grid).height)
    /\ cells_to_check' = CellsToCheck(active_cells)
    /\ next_active_cells' = active_cells
    /\ active_cells' = ActiveCellsNew
    /\ prioritised_rules' \in RuleOrders(RuleList(rules))
    /\ pc' = "loop"
    /\ fired' = {}
    /\ skipped' = {}
    /\ UNCHANGED <<rules, grid, edits, scenario, call, ret>>

\* CellWorld::update up to the cell loop: clone the grid, collect the active
\* cells, take the tracker out of self, build the rule order of this tick
UpdateStart ==
    /\ pc = "idle"
    /\ new_grid' = grid
    /\ cells_to_check' = CellsToCheck(active_cells)
    /\ next_active_cells' = active_cells
    /\ active_cells' = ActiveCellsNew
    /\ prioritised_rules' \in RuleOrders(RuleList(rules))
    /\ pc' = "loop"
    /\ fired' = {}
    /\ skipped' = {}
    /\ UNCHANGED <<rules, grid, edits, scenario, call, ret>>

\* a faulty firing that hands choose_rule_output the window of the shadow grid
FireFromShadow(rs, x, y, k, o) ==
    \E rule \in {rs[prioritised_rules[k]].rule} :
    \E window \in {Window(new_grid, x, y, rule)} :
    \E chosen_output \in {ChooseRuleOutput(rule, o, window)} :
        /\ new_grid' = SetSubgrid(new_grid, RuleX(x, rule), RuleY(y, rule),
                                  chosen_output).val
        /\ next_active_cells' =
              MarkForNextFrame(MarkAffected(next_active_cells, WindowCells(x, y, rule)),
                               NextFrameCells(grid, x, y))
        /\ fired' = fired \cup {[anchor |-> <<x, y>>, rule |-> prioritised_rules[k],
                                  cells |-> WindowCells(x, y, rule), output |-> o]}
        /\ UNCHANGED skipped

\* what one iteration of 'cell_loop does at (x, y) when rule number k of the
\* order, a rule of the list rs, is its first match and output o is sampled
Fire(rs, x, y, k, o) ==
    \E rule \in {rs[prioritised_rules[k]].rule} :
    \E window \in {Window(grid, x, y, rule)} :
    \E chosen_output \in {ChooseRuleOutput(rule, o, window)} :
        /\ new_grid' = SetSubgrid(new_grid, RuleX(x, rule), RuleY(y, rule),
                                  chosen_output).val
        /\ next_active_cells' =
              MarkForNextFrame(MarkAffected(next_active_cells, WindowCells(x, y, rule)),
                               NextFrameCells(grid, x, y))
        /\ fired' = fired \cup {[anchor |-> <<x, y>>, rule |-> prioritised_rules[k],
                                  cells |-> WindowCells(x, y, rule), output |-> o]}
        /\ UNCHANGED skipped

\* One iteration of 'cell_loop, for any cell not yet visited (the order of a
\* HashSet is arbitrary).  An iteration at a cell where no rule of the order
\* matches the snapshot assigns nothing, wherever it stands in the order, so
\* the pending cells of that kind are dropped together with the visited one.
UpdateCell ==
    /\ pc = "loop"
    /\ \E rs \in {RuleList(rules)} :
       \E live \in {{d \in cells_to_check :
                        FirstMatch(grid, rs, prioritised_rules, d[1], d[2]) # 0}} :
       \E c \in cells_to_check :
       \E k \in {FirstMatch(grid, rs, prioritised_rules, c[1], c[2])} :
          /\ IF c \in next_active_cells.affected_this_frame
             THEN /\ skipped' = skipped \cup {c}
                  /\ UNCHANGED <<new_grid, next_active_cells, fired>>
             ELSE IF k = 0
             THEN UNCHANGED <<new_grid, next_active_cells, fired, skipped>>
             ELSE \E o \in Choosable(rs[prioritised_rules[k]].rule) :
                     Fire(rs, c[1], c[2], k, o)
          /\ cells_to_check' = live \ {c}
    /\ UNCHANGED <<rules, grid, active_cells, prioritised_rules, pc, edits, scenario,
                   call, ret>>

\* the end of CellWorld::update: the shadow grid becomes the grid, the tracker
\* goes back into self and ActiveCells::update swaps its sets
UpdateFinish ==
    /\ pc = "loop"
    /\ cells_to_check = {}
    /\ grid' = new_grid
    /\ active_cells' = ActiveCellsUpdate(next_active_cells)
    /\ pc' = "idle"
    /\ new_grid' = <<>>
    /\ next_active_cells' = ActiveCellsNew
    /\ prioritised_rules' = <<>>
    /\ fired' = {}
    /\ skipped' = {}
    /\ UNCHANGED <<rules, cells_to_check, edits, scenario, call, ret>>

\* a world as its constructors leave it: CellWorld::new(width, height),
\* optionally .with_fill(kind)
InitWorld(widths, heights, rulelists, max_edits, tools, fills) ==
    /\ rules \in rulelists
    /\ \E width \in widths, height \in heights :
          grid \in {CellWorldNew(width, height)}
                     \cup {WithFill(CellWorldNew(width, height), kind) : kind \in fills}
    /\ active_cells = ActiveCellsNew
    /\ new_grid = <<>>
    /\ cells_to_check = {}
    /\ next_active_cells = ActiveCellsNew
    /\ prioritised_rules = <<>>
    /\ pc = "idle"
    /\ fired = {}
    /\ skipped = {}
    /\ edits = 0
    /\ scenario = [edits |-> max_edits, tools |-> tools]
    /\ call = [op |-> "none"]
    /\ ret = NoRet

\* the worlds of the sand rules: the water rules of setup_rules have an
\* OccupiedBy(Water) cell in their input and match nowhere in a grid without
\* water, so a world edited with sand and stone is driven by the sand rules
SandTools == {"Despawn", "Sand", "Stone"}

Init ==
    InitWorld(1..MaxWidth, 1..MaxHeight, {"SandRules"}, MaxEdits, SandTools,
              {"Sand", "Stone"})

Next == MouseInput \/ UpdateStart \/ UpdateCell \/ UpdateFinish

Spec == Init /\ [][Next]_vars


-----------------------------------------------------------------------------
(* The pure functions, each called once on an input drawn from a bounded set *)

\* Vec<Vec<T>> arguments of Grid::new: up to MaxRows rows of up to MaxCols cells
CellLists == SeqsUpTo(SeqsUpTo({"a", "b"}, MaxCols), MaxRows)

\* pattern grids of a rule, of different shapes (one of them of width zero)
RuleGrids ==
    { << <<Sand>> >>, << <<Vacant>> >>, << <<Sand>>, <<Vacant>> >>,
      << <<Sand, Unknown>> >>, << <<>> >> }

\* probabilities of an output, in millionths
Probabilities == {0, 5, 200000, 500000, 800000, 999990, 999995, Unit}

\* sets of coordinates handed to ActiveCells
CoordSets == SUBSET {<<x, 0>> : x \in 0..MaxCoord}

PureCalls ==
    {[op |-> "Grid::new", cells |-> cells] : cells \in CellLists}
    \cup {[op |-> "Rule::new", input |-> input, output |-> output] :
            input \in RuleGrids,
            output \in SeqsUpTo({MkOutput(g, p) : g \in RuleGrids, p \in Probabilities},
                                MaxOutputs)}
    \cup {[op |-> "ActiveCells::update",
           self |-> [cells |-> a, to_check_next_frame |-> b, affected_this_frame |-> c]] :
            a \in CoordSets, b \in CoordSets, c \in CoordSets}

InitPure ==
    /\ call \in PureCalls
    /\ ret = NoRet
    /\ pc = "pure"
    /\ rules = "none"
    /\ grid = <<>>
    /\ active_cells = ActiveCellsNew
    /\ new_grid = <<>>
    /\ cells_to_check = {}
    /\ next_active_cells = ActiveCellsNew
    /\ prioritised_rules = <<>>
    /\ fired = {}
    /\ skipped = {}
    /\ edits = 0
    /\ scenario = [edits |-> 0, tools |-> {}]

GridNewCall ==
    /\ pc = "pure" /\ ret = NoRet /\ call.op = "Grid::new"
    /\ ret' = GridNew(call.cells)
    /\ UNCHANGED <<worldVars, call>>

RuleNewCall ==
    /\ pc = "pure" /\ ret = NoRet /\ call.op = "Rule::new"
    /\ ret' = RuleNew(call.input, call.output)
    /\ UNCHANGED <<worldVars, call>>

ActiveCellsUpdateCall ==
    /\ pc = "pure" /\ ret = NoRet /\ call.op = "ActiveCells::update"
    /\ ret' = Ok(ActiveCellsUpdate(call.self))
    /\ UNCHANGED <<worldVars, call>>

NextPure == GridNewCall \/ RuleNewCall \/ ActiveCellsUpdateCall

SpecPure == InitPure /\ [][NextPure]_vars

Returned(op) == pc = "pure" /\ call.op = op /\ ret # NoRet

-----------------------------------------------------------------------------
(* The methods of Grid, Occupancy and Rule, each called once on a receiver   *)
(* and arguments drawn from bounded sets                                     *)

\* largest number of rows of the grid handed to set_subgrid
MaxSrcRows == 2

\* the grids Grid::new builds from up to rows rows of up to cols cells of S
GridsOf(S, rows, cols) == {c \in SeqsUpTo(SeqsUpTo(S, cols), rows) : GridNew(c).ok}

\* the receivers of the Grid methods, and the grids written into them
SelfGrids == GridsOf({"a", "b"}, MaxRows, MaxCols)
SrcGrids == GridsOf({"c", "d"}, MaxSrcRows, MaxCols)

\* the values of Occupancy<ParticleKind>
Occupancies == {OccupiedBy(k) : k \in ParticleKind} \cup {OccupiedByAny, Unknown, Vacant}

\* grids of one cell, of two cells in a column, of two cells in a row, and of
\* one row of no cells, over the cells of S
SmallGrids(S) ==
    {<< <<a>> >> : a \in S} \cup {<< <<a>>, <<b>> >> : a \in S, b \in S}
    \cup {<< <<a, b>> >> : a \in S, b \in S} \cup {<< <<>> >>}

\* the inputs of the rules under test, and the windows they are matched with
\* (particle_kind_window holds OccupiedBy(kind) and Vacant only)
PatternGrids == SmallGrids({Sand, OccupiedByAny, Unknown, Vacant})
CandidateGrids == SmallGrids({Sand, Water, Vacant})

MethodCalls ==
    {[op |-> "Occupancy::eq", self |-> a, other |-> b] :
        a \in Occupancies, b \in Occupancies}
    \cup {[op |-> "Rule::matches",
           self |-> MkRule(p, << MkOutput(p, PercentageNew(Unit)) >>), grid |-> g] :
            p \in PatternGrids, g \in CandidateGrids}
    \cup {[op |-> op, self |-> g, x |-> x, y |-> y] :
            op \in {"Grid::get", "Grid::get_mut"}, g \in SelfGrids,
            x \in 0..MaxCoord, y \in 0..MaxCoord}
    \cup {[op |-> "Grid::get_subgrid", self |-> g, x |-> x, y |-> y,
           width |-> w, height |-> h] :
            g \in SelfGrids, x \in 0..MaxCoord, y \in 0..MaxCoord,
            w \in 0..MaxCoord, h \in 0..MaxCoord}
    \cup {[op |-> "Grid::set_subgrid", self |-> g, x |-> x, y |-> y, grid |-> src] :
            g \in SelfGrids, x \in 0..MaxCoord, y \in 0..MaxCoord, src \in SrcGrids}
    \cup {[op |-> "Grid::windowed", self |-> g,
           window_dimensions |-> [width |-> w, height |-> h]] :
            g \in SelfGrids, w \in 0..MaxCoord, h \in 0..MaxCoord}

\* the methods whose receiver is a Grid: the variable grid holds the receiver
GridMethods ==
    {"Grid::get", "Grid::get_mut", "Grid::get_subgrid", "Grid::set_subgrid",
     "Grid::windowed"}

InitCalls ==
    /\ call \in MethodCalls
    /\ ret = NoRet
    /\ pc = "pure"
    /\ rules = "none"
    /\ grid = IF call.op \in GridMethods THEN call.self ELSE <<>>
    /\ active_cells = ActiveCellsNew
    /\ new_grid = <<>>
    /\ cells_to_check = {}
    /\ next_active_cells = ActiveCellsNew
    /\ prioritised_rules = <<>>
    /\ fired = {}
    /\ skipped = {}
    /\ edits = 0
    /\ scenario = [edits |-> 0, tools |-> {}]

OccupancyEqCall ==
    /\ pc = "pure" /\ ret = NoRet /\ call.op = "Occupancy::eq"
    /\ ret' = Ok(OccupancyEq(call.self, call.other))
    /\ UNCHANGED <<worldVars, call>>

\* matches borrows the rule and the grid immutably
RuleMatchesCall ==
    /\ pc = "pure" /\ ret = NoRet /\ call.op = "Rule::matches"
    /\ ret' = Ok(RuleMatches(call.self, call.grid))
    /\ UNCHANGED <<worldVars, call>>

GridGetCall ==
    /\ pc = "pure" /\ ret = NoRet /\ call.op = "Grid::get"
    /\ ret' = GridGet(grid, call.x, call.y)
    /\ UNCHANGED <<worldVars, call>>

\* get_mut hands out a borrow and writes nothing itself
GridGetMutCall ==
    /\ pc = "pure" /\ ret = NoRet /\ call.op = "Grid::get_mut"
    /\ ret' = GridGetMut(grid, call.x, call.y)
    /\ UNCHANGED <<worldVars, call>>

GetSubgridCall ==
    /\ pc = "pure" /\ ret = NoRet /\ call.op = "Grid::get_subgrid"
    /\ ret' = GetSubgrid(grid, call.x, call.y, call.width, call.height)
    /\ UNCHANGED <<worldVars, call>>

\* set_subgrid writes into the receiver and returns Ok(()), or returns the
\* error before the loops
SetSubgridCall ==
    /\ pc = "pure" /\ ret = NoRet /\ call.op = "Grid::set_subgrid"
    /\ \E r \in {SetSubgrid(grid, call.x, call.y, call.grid)} :
          /\ ret' = IF r.ok THEN Ok("unit") ELSE r
          /\ grid' = IF r.ok THEN r.val ELSE grid
    /\ UNCHANGED <<rules, active_cells, new_grid, cells_to_check, next_active_cells,
                   prioritised_rules, pc, fired, skipped, edits, scenario, call>>

\* the iterator of windowed, run to its end
WindowedCall ==
    /\ pc = "pure" /\ ret = NoRet /\ call.op = "Grid::windowed"
    /\ ret' = Windowed(grid, call.window_dimensions)
    /\ UNCHANGED <<worldVars, call>>

NextCalls ==
    \/ OccupancyEqCall \/ RuleMatchesCall \/ GridGetCall \/ GridGetMutCall
    \/ GetSubgridCall \/ SetSubgridCall \/ WindowedCall

SpecCalls == InitCalls /\ [][NextCalls]_vars

-----------------------------------------------------------------------------
(* Claims C8, C9, C10: the pure functions *)

\* C8: ActiveCells::update, for any contents of the three sets: afterwards
\* cells is the to_check_next_frame of before the call, and to_check_next_frame
\* and affected_this_frame are empty (the cells of before are discarded).
C8_UpdateSwapsAndClears ==
    Returned("ActiveCells::update") =>
        /\ ret.val.cells = call.self.to_check_next_frame
        /\ ret.val.to_check_next_frame = {}
        /\ ret.val.affected_this_frame = {}

\* an update of three non-empty sets whose cells and to_check_next_frame differ
C8_Witness ==
    /\ Returned("ActiveCells::update")
    /\ call.self.cells # {}
    /\ call.self.affected_this_frame # {}
    /\ call.self.to_check_next_frame # {}
    /\ call.self.to_check_next_frame # call.self.cells

\* the rows all have the length of the first one
EqualRows(cells) == \A i \in 1..Len(cells) : Len(cells[i]) = Len(cells[1])

\* C9 as claimed: Grid::new succeeds iff there is at least one row and all rows
\* have the same nonzero length; no rows fail with EmptyGrid, rows of different
\* lengths with UnequalRowLengths, and rows of length zero are rejected as well.
C9_GridNewIffEqualNonzeroRows ==
    Returned("Grid::new") =>
        /\ ret.ok <=> (Len(call.cells) >= 1 /\ EqualRows(call.cells)
                       /\ Len(call.cells[1]) > 0)
        /\ Len(call.cells) = 0 => (~ret.ok /\ ret.err = "EmptyGrid")
        /\ (Len(call.cells) >= 1 /\ ~EqualRows(call.cells)) =>
              (~ret.ok /\ ret.err = "UnequalRowLengths")

\* the outputs of a Rule::new call all have the dimensions of its input
SameDimensions(c) ==
    \A i \in 1..Len(c.output) : Dimensions(c.output[i].grid) = Dimensions(c.input)

\* the arithmetic sum of the output probabilities of a Rule::new call
TotalProbability(c) == SumSeq([i \in 1..Len(c.output) |-> c.output[i].probability])

\* C10 as claimed: with matching dimensions, Rule::new fails with
\* OutputNotInProbabilisticUnity whenever the arithmetic sum of the output
\* probabilities is 1e-5 or more away from 1.0 (above 1 included), and succeeds
\* for a single output of probability 1.0.
C10_RuleNewRejectsNonUnity ==
    (Returned("Rule::new") /\ SameDimensions(call)) =>
        /\ (TotalProbability(call) - Unit >= EPSILON \/ Unit - TotalProbability(call) >= EPSILON)
              => (~ret.ok /\ ret.err = "OutputNotInProbabilisticUnity")
        /\ (Len(call.output) = 1 /\ call.output[1].probability = Unit) => ret.ok


-----------------------------------------------------------------------------
(* Claims C1, C2, C7: the engine under the sand rules *)

\* C1 as claimed: during one CellWorld::update no grid cell lies inside the
\* write window of two different rule firings.
C1_WriteWindowsDisjoint ==
    \A f1 \in fired : \A f2 \in fired :
        f1 # f2 => f1.cells \cap f2.cells = {}

\* the last step of a CellWorld::update
TickEnds == pc = "loop" /\ pc' = "idle"

\* the grid holds one sand particle, at (x, y), and nothing else
SingleSand(g, x, y) ==
    /\ x < Dimensions(g).width /\ y < Dimensions(g).height
    /\ g = [CellWorldNew(Dimensions(g).width, Dimensions(g).height)
               EXCEPT ![y + 1][x + 1] = CellOf("Sand")]

\* the water rules of setup_rules (rules 4 to 8) match at no cell of the grid
NoWaterRuleMatches ==
    \A k \in 4..Len(setup_rules) :
        \A x \in 0..MaxWidth : \A y \in 0..MaxHeight :
            ~MatchesAt(grid, x, y, setup_rules[k].rule)

\* C2: a single sand particle at (x, y) of an otherwise empty grid, with
\* (x, y+1) inside the grid, is at (x, y+1) after each CellWorld::update, and
\* (x, y) is empty: one row per tick, never zero and never two.  Checked in
\* every reachable state of that shape, the state right after the placement
\* included.  The rule list of the worlds is the sand rules of setup_rules;
\* the second conjunct says that the other rules of setup_rules match nowhere
\* in these worlds, so they apply nothing in them.
C2_SandFallsOneRow ==
    /\ [][TickEnds =>
             \A x \in 0..(MaxWidth - 1) : \A y \in 0..(MaxHeight - 1) :
                 (SingleSand(grid, x, y) /\ y + 1 < Dimensions(grid).height)
                     => SingleSand(grid', x, y + 1)]_vars
    /\ []NoWaterRuleMatches

\* a tick that ends with the sand of (x, 1) written to (x, 2): the second row
\* of a fall that began at the top
C2_Witness ==
    /\ pc = "loop" /\ cells_to_check = {}
    /\ \E x \in 0..(MaxWidth - 1) :
          /\ SingleSand(grid, x, 1)
          /\ SingleSand(new_grid, x, 2)

\* the 3x3 block around (x, y), clamped to the grid edges
ClampedBlock(g, x, y) ==
    {<<dx, dy>> : dx \in SaturatingSub(x, 1)..Min(x + 1, Dimensions(g).width - 1),
                  dy \in SaturatingSub(y, 1)..Min(y + 1, Dimensions(g).height - 1)}

\* C7 as claimed: a single-cell edit at an in-bounds (x, y) of a world whose
\* active set was empty leaves the placed content in the target cell and makes
\* the active set exactly the 3x3 neighbourhood of (x, y) clamped to the grid
\* edges, so only in-bounds coordinates, also on the right and bottom edge.
C7_EditActivatesClampedBlock ==
    [][(edits' = edits + 1 /\ active_cells.cells = {}) =>
          \E x \in 0..(Dimensions(grid).width - 1), y \in 0..(Dimensions(grid).height - 1),
             tool \in scenario.tools :
              /\ grid' = [grid EXCEPT ![y + 1][x + 1] =
                             IF tool = "Despawn" THEN EmptyCell ELSE CellOf(tool)]
              /\ active_cells'.cells = ClampedBlock(grid, x, y)]_vars


-----------------------------------------------------------------------------
(* Claim C3: settled sand, under ticks that keep being run *)

\* worlds of the largest size, empty or filled with sand, edited with stone
\* and the eraser: a particle has room to fall beside a blocked one
InitSettle ==
    InitWorld({MaxWidth}, {MaxHeight}, {"SandRules"}, MaxEdits, {"Despawn", "Stone"},
              {"Sand"})

\* 'cell_loop is a for loop over a finite vector: it does not stop at a cell
\* that is still to be visited.  This is WF_vars(UpdateCell) with the
\* enabling condition of UpdateCell written out: UpdateCell can step exactly
\* when pc = "loop" and cells_to_check is not empty, and each of its steps
\* takes a cell out of cells_to_check, which only UpdateStart fills again.
LoopFair == []<>~(pc = "loop" /\ cells_to_check # {})

\* the tick is run again and again, and a tick that began runs to its end
FairSpec ==
    /\ InitSettle /\ [][Next]_vars
    /\ WF_vars(UpdateStart) /\ LoopFair /\ WF_vars(UpdateFinish)

\* the content of the in-bounds cell (x, y)
At(g, x, y) == GridGet(g, x, y).val

\* the cell (x, y) is inside the grid and holds sand
SandAt(g, x, y) == GridGet(g, x, y).ok /\ At(g, x, y) = CellOf("Sand")

\* the cell (x, y) is outside the grid or holds a particle
NotEmpty(g, x, y) == GridGet(g, x, y).ok => At(g, x, y) # EmptyCell

\* sand at (x, y) with stone directly beneath it and no empty lower-diagonal cell
Blocked(g, x, y) ==
    /\ SandAt(g, x, y)
    /\ GridGet(g, x, y + 1).ok /\ At(g, x, y + 1) = CellOf("Stone")
    /\ x > 0 => NotEmpty(g, x - 1, y + 1)
    /\ NotEmpty(g, x + 1, y + 1)

\* the active set is empty, between ticks and inside one
Quiet ==
    /\ active_cells.cells = {}
    /\ cells_to_check = {}
    /\ next_active_cells.to_check_next_frame = {}

-----------------------------------------------------------------------------
(* Claims C4, C5, C6: the rule order, under a rule list with priorities *)

\* the rules of PriorityRules are one cell wide and high: a world of one row
PriorityHeight == 1

InitPriority ==
    InitWorld(1..MaxWidth, 1..PriorityHeight, {"PriorityRules"}, MaxEdits, Tool,
              ParticleKind)

SpecPriority == InitPriority /\ [][Next]_vars

\* the position of rule number i in a rule order
Position(order, i) == CHOOSE k \in 1..Len(order) : order[k] = i

\* C4: first-match-wins.  Every rule applied in a tick matched at its anchor
\* on the snapshot, no rule standing before it in the tick's one order matched
\* there, and no cell is the anchor of two applications.
C4_FirstMatchWins ==
    \A f \in fired :
        /\ MatchesAt(grid, f.anchor[1], f.anchor[2], RuleList(rules)[f.rule].rule)
        /\ \A j \in 1..(Position(prioritised_rules, f.rule) - 1) :
              ~MatchesAt(grid, f.anchor[1], f.anchor[2],
                         RuleList(rules)[prioritised_rules[j]].rule)
        /\ \A f2 \in fired : f2.anchor = f.anchor => f2 = f

\* a rule applied at a cell where a later rule of the order matches as well
C4_Witness ==
    \E f \in fired :
        \E j \in (Position(prioritised_rules, f.rule) + 1)..Len(prioritised_rules) :
            MatchesAt(grid, f.anchor[1], f.anchor[2],
                      RuleList(rules)[prioritised_rules[j]].rule)

\* C5: in the rule order of every tick, a rule of priority p stands before
\* every rule of priority q > p.
C5_PrioritiesAscend ==
    pc = "loop" =>
        \A i \in 1..Len(prioritised_rules) : \A j \in 1..Len(prioritised_rules) :
            LET ri == RuleList(rules)[prioritised_rules[i]]
                rj == RuleList(rules)[prioritised_rules[j]]
            IN  (ri.priority.some /\ rj.priority.some /\ ri.priority.val < rj.priority.val)
                    => i < j

\* an order in which the unprioritized rule stands between the priorities 1
\* and 2, and the rule that is first in the list (priority 2) comes last
C5_Witness ==
    /\ pc = "loop"
    /\ Len(prioritised_rules) = 4
    /\ prioritised_rules[3] = 4
    /\ prioritised_rules[4] = 1

\* rules number i and j of the list are different and have the same priority
Tied(rs, i, j) ==
    /\ i # j
    /\ rs[i].priority.some /\ rs[j].priority.some
    /\ rs[i].priority.val = rs[j].priority.val

\* update can build a rule order (UpdateStart picks any of RuleOrders) under
\* which rule number i is the first match, hence the rule applied, at (x, y)
CanBeApplied(i, x, y) ==
    \E order \in RuleOrders(RuleList(rules)) :
        LET k == FirstMatch(grid, RuleList(rules), order, x, y)
        IN  k # 0 /\ order[k] = i

\* C6: of two rules of the same priority that both match at an active cell
\* (and no rule of a smaller priority value matches there), neither is
\* preferred by the order: for each of them a tick can begin with an order in
\* which it is the first match at that cell.
C6_TieGoesBothWays ==
    pc = "idle" =>
        \A c \in active_cells.cells :
            \A i \in 1..Len(RuleList(rules)) : \A j \in 1..Len(RuleList(rules)) :
                (/\ Tied(RuleList(rules), i, j)
                 /\ MatchesAt(grid, c[1], c[2], RuleList(rules)[i].rule)
                 /\ MatchesAt(grid, c[1], c[2], RuleList(rules)[j].rule)
                 /\ \A k \in 1..Len(RuleList(rules)) :
                       (/\ RuleList(rules)[k].priority.some
                        /\ RuleList(rules)[k].priority.val < RuleList(rules)[i].priority.val)
                          => ~MatchesAt(grid, c[1], c[2], RuleList(rules)[k].rule))
                    => CanBeApplied(i, c[1], c[2]) /\ CanBeApplied(j, c[1], c[2])

\* a tick in which the second rule of the tie (rule 3 of the list, which a
\* stable sort alone would always put behind rule 2) was applied
C6_Witness ==
    /\ rules = "PriorityRules"
    /\ \E f \in fired : f.rule = 3


-----------------------------------------------------------------------------
(* Claim C11: Rule::new and the dimensions of the outputs *)

\* C11: Rule::new returns DimensionMismatch exactly when an output grid has
\* other dimensions than the input grid, and a rule it returns is the rule of
\* its arguments, with every output grid of the input's width and height.
C11_DimensionMismatchIffShapesDiffer ==
    Returned("Rule::new") =>
        /\ (~ret.ok /\ ret.err = "DimensionMismatch") <=> ~SameDimensions(call)
        /\ ret.ok =>
              /\ ret.val = MkRule(call.input, call.output)
              /\ \A i \in 1..Len(ret.val.output) :
                    Dimensions(ret.val.output[i].grid) = Dimensions(ret.val.input)

\* a call refused for its dimensions although its probabilities are off as well
C11_Witness ==
    /\ Returned("Rule::new")
    /\ ~ret.ok /\ ret.err = "DimensionMismatch"
    /\ Len(call.output) = 2
    /\ TotalProbability(call) < Unit - EPSILON


-----------------------------------------------------------------------------
(* Claim C12: rules that enter the rule list without Rule::new *)

\* worlds of one row whose rules were spawned as struct literals
InitLiteral ==
    InitWorld(1..MaxWidth, 1..PriorityHeight, {"LiteralRules"}, MaxEdits, Tool,
              ParticleKind)

SpecLiteral == InitLiteral /\ [][Next]_vars

\* C12 as claimed: every rule of the list CellWorld::update processes passes
\* the validation of Rule::new (its outputs have the dimensions of its input
\* and their probabilities sum to one), and so does every rule it applies.
C12_ProcessedRulesAreValid ==
    /\ pc = "loop" =>
          \A i \in 1..Len(prioritised_rules) :
              RuleValidate(RuleList(rules)[prioritised_rules[i]].rule).ok
    /\ \A f \in fired : RuleValidate(RuleList(rules)[f.rule].rule).ok

\* the eight rules setup_rules itself spawns are well formed, although none of
\* them was built by Rule::new
C12_SetupRulesWellFormed ==
    \A i \in 1..Len(setup_rules) : RuleValidate(setup_rules[i].rule).ok


-----------------------------------------------------------------------------
(* Claims C13, C14, C15: Occupancy matching and Rule::matches *)

\* C13: the matching of two Occupancy values is reflexive and symmetric, and
\* it is not transitive: OccupiedBy(A) and OccupiedBy(B) with A # B do not
\* match each other although Unknown matches both of them.
C13_ReflexiveSymmetricNotTransitive ==
    Returned("Occupancy::eq") =>
        /\ call.self = call.other => ret.val
        /\ ret.val = OccupancyEq(call.other, call.self)
        /\ (/\ call.self.tag = "OccupiedBy" /\ call.other.tag = "OccupiedBy"
            /\ call.self.kind # call.other.kind)
              => /\ ~ret.val
                 /\ OccupancyEq(call.self, Unknown)
                 /\ OccupancyEq(Unknown, call.other)

\* Vacant compared with Unknown: the pair only the (_, Unknown) arm accepts
C13_Witness ==
    /\ Returned("Occupancy::eq")
    /\ call.self = Vacant /\ call.other = Unknown
    /\ ret.val

\* C14: the matching table.  Unknown matches everything, on either side;
\* OccupiedByAny matches OccupiedByAny and every OccupiedBy(k) but not Vacant;
\* OccupiedBy(a) matches OccupiedBy(b) exactly when a = b; Vacant matches
\* Vacant (and Unknown) only.
C14_MatchingTable ==
    Returned("Occupancy::eq") =>
        (ret.val <=>
            \/ call.self.tag = "Unknown"
            \/ call.other.tag = "Unknown"
            \/ /\ call.self.tag = "OccupiedByAny"
               /\ call.other.tag \in {"OccupiedByAny", "OccupiedBy"}
            \/ /\ call.other.tag = "OccupiedByAny"
               /\ call.self.tag \in {"OccupiedByAny", "OccupiedBy"}
            \/ /\ call.self.tag = "OccupiedBy" /\ call.other.tag = "OccupiedBy"
               /\ call.self.kind = call.other.kind
            \/ call.self.tag = "Vacant" /\ call.other.tag = "Vacant")

\* OccupiedByAny compared with Vacant: no match
C14_Witness ==
    /\ Returned("Occupancy::eq")
    /\ call.self = OccupiedByAny /\ call.other = Vacant
    /\ ~ret.val

\* C15: Rule::matches is false when the dimensions of the rule's input and of
\* the grid differ, and otherwise true exactly when every cell of the input
\* matches the cell of the grid at the same place.  (The call borrows the
\* rule and the grid immutably: RuleMatchesCall leaves both as they were.)
C15_MatchesIffEveryCellMatches ==
    Returned("Rule::matches") =>
        /\ Dimensions(call.self.input) # Dimensions(call.grid) => ~ret.val
        /\ Dimensions(call.self.input) = Dimensions(call.grid) =>
              (ret.val <=>
                  \A y \in 0..(Dimensions(call.grid).height - 1) :
                      \A x \in 0..(Dimensions(call.grid).width - 1) :
                          OccupancyEq(GridGet(call.self.input, x, y).val,
                                      GridGet(call.grid, x, y).val))

\* a grid of two cells of which the first matches and the second does not
C15_Witness ==
    /\ Returned("Rule::matches")
    /\ Dimensions(call.self.input) = Dimensions(call.grid)
    /\ Len(call.grid) = 1 /\ Len(call.grid[1]) = 2
    /\ OccupancyEq(call.self.input[1][1], call.grid[1][1])
    /\ ~OccupancyEq(call.self.input[1][2], call.grid[1][2])
    /\ ~ret.val


-----------------------------------------------------------------------------
(* Claims C16, C17, C18, C19: the methods of Grid *)

\* C16: round trip.  For a grid of size WxH and a source grid of size wxh with
\* x + w <= W and y + h <= H, after set_subgrid(x, y, src) has succeeded
\* get_subgrid(x, y, w, h) returns a grid equal to src.
C16_SetThenGetRoundTrip ==
    (/\ Returned("Grid::set_subgrid") /\ ret.ok
     /\ call.x + Dimensions(call.grid).width <= Dimensions(call.self).width
     /\ call.y + Dimensions(call.grid).height <= Dimensions(call.self).height)
        => GetSubgrid(grid, call.x, call.y, Dimensions(call.grid).width,
                      Dimensions(call.grid).height) = Ok(call.grid)

\* a source of one column and two rows written away from the origin
C16_Witness ==
    /\ Returned("Grid::set_subgrid") /\ ret.ok
    /\ call.x = 1 /\ call.y = 1
    /\ Dimensions(call.grid) = [width |-> 1, height |-> 2]
    /\ Dimensions(call.self) = [width |-> 2, height |-> 3]
    /\ grid # call.self

\* C17: get and get_mut return OutOfBounds exactly when x >= width or
\* y >= height, and otherwise the element of row y, column x; a failed access
\* leaves the grid as it was.
C17_GetIffInBounds ==
    (Returned("Grid::get") \/ Returned("Grid::get_mut")) =>
        /\ (~ret.ok /\ ret.err = "OutOfBounds")
              <=> (\/ call.x >= Dimensions(call.self).width
                   \/ call.y >= Dimensions(call.self).height)
        /\ ret.ok => ret.val = call.self[call.y + 1][call.x + 1]
        /\ ~ret.ok => grid = call.self

\* an access refused for its column in a grid that has a row y and a row x
C17_Witness ==
    /\ Returned("Grid::get")
    /\ ~ret.ok
    /\ call.x = 2 /\ call.y = 1
    /\ Dimensions(call.self) = [width |-> 2, height |-> 3]

\* C18: set_subgrid fails with SubgridBiggerThanGrid exactly when the source
\* is wider than the whole grid or taller than the whole grid, and then the
\* destination is unchanged.
C18_FailsIffSourceBigger ==
    Returned("Grid::set_subgrid") =>
        /\ (~ret.ok /\ ret.err = "SubgridBiggerThanGrid")
              <=> (\/ Dimensions(call.grid).width > Dimensions(call.self).width
                   \/ Dimensions(call.grid).height > Dimensions(call.self).height)
        /\ ~ret.ok => grid = call.self

\* a source wider than the grid but not taller is refused
C18_Witness ==
    /\ Returned("Grid::set_subgrid")
    /\ ~ret.ok /\ ret.err = "SubgridBiggerThanGrid"
    /\ Dimensions(call.grid).width > Dimensions(call.self).width
    /\ Dimensions(call.grid).height < Dimensions(call.self).height
    /\ grid = call.self

\* C19: for a grid of size WxH and window dimensions wxh with 1 <= w <= W and
\* 1 <= h <= H, windowed yields exactly (W-w+1)*(H-h+1) windows, in row-major
\* order of their top-left offset (all x of y = 0 first, left to right), the
\* window at offset (x, y) being get_subgrid(x, y, w, h); iterating again
\* yields the same sequence.
C19_WindowsInRowMajorOrder ==
    (/\ Returned("Grid::windowed")
     /\ 1 <= call.window_dimensions.width
     /\ call.window_dimensions.width <= Dimensions(call.self).width
     /\ 1 <= call.window_dimensions.height
     /\ call.window_dimensions.height <= Dimensions(call.self).height)
        => LET nx == Dimensions(call.self).width - call.window_dimensions.width + 1
               ny == Dimensions(call.self).height - call.window_dimensions.height + 1
           IN  /\ ret.ok
               /\ Len(ret.val) = nx * ny
               /\ \A y \in 0..(ny - 1) : \A x \in 0..(nx - 1) :
                     /\ ret.val[y * nx + x + 1].x = x
                     /\ ret.val[y * nx + x + 1].y = y
                     /\ Ok(ret.val[y * nx + x + 1].grid) =
                           GetSubgrid(call.self, x, y, call.window_dimensions.width,
                                      call.window_dimensions.height)
               /\ Windowed(grid, call.window_dimensions) = ret

\* two columns and two rows of windows
C19_Witness ==
    /\ Returned("Grid::windowed") /\ ret.ok
    /\ Dimensions(call.self) = [width |-> 2, height |-> 3]
    /\ call.window_dimensions = [width |-> 1, height |-> 2]
    /\ Len(ret.val) = 4


-----------------------------------------------------------------------------
(* Claim C20: what a firing writes *)

\* the cell of the chosen output of firing f that is written to the grid cell c
OutputCellAt(f, c) ==
    LET rule == RuleList(rules)[f.rule].rule
    IN  rule.output[f.output].grid[c[2] - RuleY(f.anchor[2], rule) + 1]
                                  [c[1] - RuleX(f.anchor[1], rule) + 1]

\* C20: when a rule fires, each cell of the destination window is written from
\* the chosen output: OccupiedBy(k) writes a fresh particle of kind k, Vacant
\* writes the empty cell, and OccupiedByAny or Unknown write back the content
\* the cell had in the grid when the tick began (the snapshot), not what an
\* earlier firing of the tick wrote to the shadow grid.
C20_FiringWritesChosenOutput ==
    [][\A f \in fired' \ fired : \A c \in f.cells :
          At(new_grid', c[1], c[2]) =
              CASE OutputCellAt(f, c).tag = "OccupiedBy" ->
                      ParticleNew(OutputCellAt(f, c).kind)
                [] OutputCellAt(f, c).tag = "Vacant" -> EmptyCell
                [] OTHER -> At(grid, c[1], c[2])]_vars

\* two firings of one tick share a cell: the first wrote a content other than
\* the snapshot's to it, the second has Unknown or OccupiedByAny there and has
\* put the snapshot's content back
C20_Witness ==
    /\ pc = "loop"
    /\ \E f1 \in fired : \E f2 \in fired \ {f1} : \E c \in f1.cells \cap f2.cells :
          /\ OutputCellAt(f2, c).tag \in {"Unknown", "OccupiedByAny"}
          /\ OutputCellAt(f1, c).tag \in {"OccupiedBy", "Vacant"}
          /\ At(grid, c[1], c[2]) #
                (IF OutputCellAt(f1, c).tag = "Vacant" THEN EmptyCell
                 ELSE ParticleNew(OutputCellAt(f1, c).kind))
          /\ At(new_grid, c[1], c[2]) = At(grid, c[1], c[2])


-----------------------------------------------------------------------------
(* Claim C21: the tick reads the snapshot *)

\* the grid as firing f alone would leave it, had it been written to the grid
\* of the tick's beginning
WrittenBy(f) ==
    LET rule == RuleList(rules)[f.rule].rule
    IN  SetSubgrid(grid, RuleX(f.anchor[1], rule), RuleY(f.anchor[2], rule),
                   ChooseRuleOutput(rule, f.output,
                                    Window(grid, f.anchor[1], f.anchor[2], rule))).val

\* C21: within one tick every match decision is taken against the grid as it
\* was when the tick began: a rule that fires is the first rule of the order
\* that matches at its anchor on that grid, whatever earlier firings of the
\* tick have written, the grid itself does not change while cells are being
\* processed, and it is replaced by the shadow copy only when no active cell
\* is left to process.
C21_MatchesReadSnapshot ==
    [][/\ \A f \in fired' \ fired :
             /\ MatchesAt(grid, f.anchor[1], f.anchor[2], RuleList(rules)[f.rule].rule)
             /\ \A j \in 1..(Position(prioritised_rules, f.rule) - 1) :
                   ~MatchesAt(grid, f.anchor[1], f.anchor[2],
                              RuleList(rules)[prioritised_rules[j]].rule)
       /\ (pc = "loop" /\ grid' # grid) =>
             (cells_to_check = {} /\ pc' = "idle" /\ grid' = new_grid)]_vars

\* two firings of one tick neither of which would have matched had it seen
\* what the other wrote
C21_Witness ==
    /\ pc = "loop"
    /\ \E f1 \in fired : \E f2 \in fired \ {f1} :
          /\ ~MatchesAt(WrittenBy(f1), f2.anchor[1], f2.anchor[2],
                        RuleList(rules)[f2.rule].rule)
          /\ ~MatchesAt(WrittenBy(f2), f1.anchor[1], f1.anchor[2],
                        RuleList(rules)[f1.rule].rule)


-----------------------------------------------------------------------------
(* Claim C22: a tick with an empty active set *)

\* some rule of the list matches somewhere in the grid g
SomeRuleMatches(g) ==
    \E k \in 1..Len(RuleList(rules)) :
        \E x \in 0..(Dimensions(g).width - 1) : \E y \in 0..(Dimensions(g).height - 1) :
            MatchesAt(g, x, y, RuleList(rules)[k].rule)

\* C22: a CellWorld::update that begins with an empty active set visits no
\* cell, leaves the grid unchanged and the active set empty, also when a rule
\* of the list matches somewhere in the grid; and from a state with an empty
\* active set only a single-cell edit makes the active set non-empty.
C22_EmptyActiveSetTickIsNoOp ==
    [][/\ (pc = "idle" /\ pc' = "loop" /\ active_cells.cells = {}) =>
             cells_to_check' = {}
       /\ (TickEnds /\ next_active_cells.cells = {}) =>
             (fired = {} /\ grid' = grid /\ active_cells'.cells = {})
       /\ (pc = "idle" /\ active_cells.cells = {} /\ active_cells'.cells # {}) =>
             edits' = edits + 1]_vars

\* a tick that began with an empty active set on a grid in which a rule
\* matches is about to end
C22_Witness ==
    /\ pc = "loop"
    /\ next_active_cells.cells = {}
    /\ cells_to_check = {}
    /\ SomeRuleMatches(grid)
    /\ new_grid = grid


-----------------------------------------------------------------------------
(* Claim C23: panics of a tick.  The coordinates are usize values; the model *)
(* keeps their width, reduced to UsizeMax = 2^3 - 1, and both builds: with   *)
(* overflow checks (debug) an overflowing addition panics, without them      *)
(* (release) it wraps around.                                                *)

\* usize::MAX
UsizeMax == 7

\* usize addition in a build without overflow checks
WrappingAdd(a, b) == (a + b) % (UsizeMax + 1)

\* whether the firing of a matching rule at (x, y) can panic: WeightedIndex::new
\* fails without a positive weight, current_grid_window.get fails outside the
\* window, Grid::new fails for an output without rows, set_subgrid fails for
\* an output larger than the grid, and y + 1 or x + 1 overflows
FiringPanics(checks, g, x, y, rule) ==
    \/ Choosable(rule) = {}
    \/ \E o \in Choosable(rule) :
          \/ Len(rule.output[o].grid) = 0
          \/ \E i \in 1..Len(rule.output[o].grid) :
             \E j \in 1..Len(rule.output[o].grid[i]) :
                /\ rule.output[o].grid[i][j].tag \in {"Unknown", "OccupiedByAny"}
                /\ ~GridGet(Window(g, x, y, rule), j - 1, i - 1).ok
          \/ Dimensions(rule.output[o].grid).width > Dimensions(g).width
          \/ Dimensions(rule.output[o].grid).height > Dimensions(g).height
    \/ checks /\ (y + 1 > UsizeMax \/ x + 1 > UsizeMax)

\* what the body of the inner loop does for one rule at (x, y): "panic",
\* "skip" (the bounds test fails), "nomatch" or "fire".  The || of the bounds
\* test evaluates its right side only when the left side is false.
RuleOutcome(checks, g, x, y, rule) ==
    LET w == RuleDimensions(rule).width
        h == RuleDimensions(rule).height
        rule_x == RuleX(x, rule)
        rule_y == RuleY(y, rule)
    IN  IF checks /\ rule_x + w > UsizeMax THEN "panic"
        ELSE IF WrappingAdd(rule_x, w) > Dimensions(g).width THEN "skip"
        ELSE IF checks /\ rule_y + h > UsizeMax THEN "panic"
        ELSE IF WrappingAdd(rule_y, h) > Dimensions(g).height THEN "skip"
        ELSE IF ~GridNew(ParticleKindWindow(GetSubgrid(g, rule_x, rule_y, w, h).val)).ok
             THEN "panic"
        ELSE IF ~RuleMatches(rule, ParticleKindWindow(GetSubgrid(g, rule_x, rule_y,
                                                                 w, h).val))
             THEN "nomatch"
        ELSE IF FiringPanics(checks, g, x, y, rule) THEN "panic"
        ELSE "fire"

\* one iteration of 'cell_loop at (x, y), from rule number k of the order on:
\* the outcome of the first rule that fires or panics, "done" without one
RECURSIVE IterationOutcome(_, _, _, _, _, _, _)
IterationOutcome(checks, g, rs, order, x, y, k) ==
    IF k > Len(order) THEN "done"
    ELSE IF RuleOutcome(checks, g, x, y, rs[order[k]].rule) \in {"panic", "fire"}
         THEN RuleOutcome(checks, g, x, y, rs[order[k]].rule)
         ELSE IterationOutcome(checks, g, rs, order, x, y, k + 1)

\* the iteration at the pending cell c panics
Panics(c) ==
    IterationOutcome(scenario.overflow_checks, grid, RuleList(rules),
                     prioritised_rules, c[1], c[2], 1) = "panic"

\* coordinates inside the grid, on its far edge, and the largest usize
ActiveCoords == {0, 1, MaxWidth, UsizeMax}

\* the active sets of up to two coordinates
ActiveSets ==
    {s \in SUBSET (ActiveCoords \X ActiveCoords) : Cardinality(s) <= 2}

\* CellWorld::new(width, height) with width, height >= 1, any of the active
\* sets, a list of rules accepted by Rule::new, either build
InitAnyActive ==
    /\ rules \in {"CheckedRules", "SandRules"}
    /\ \A i \in 1..Len(RuleList(rules)) :
          RuleNew(RuleList(rules)[i].rule.input,
                  RuleList(rules)[i].rule.output).ok
    /\ \E width \in 1..MaxWidth, height \in 1..MaxWidth :
          grid = CellWorldNew(width, height)
    /\ \E s \in ActiveSets : active_cells = MarkActive(ActiveCellsNew, s)
    /\ new_grid = <<>>
    /\ cells_to_check = {}
    /\ next_active_cells = ActiveCellsNew
    /\ prioritised_rules = <<>>
    /\ pc = "idle"
    /\ fired = {}
    /\ skipped = {}
    /\ edits = 0
    /\ \E checks \in BOOLEAN :
          scenario = [edits |-> 0, tools |-> {}, overflow_checks |-> checks]
    /\ call = [op |-> "none"]
    /\ ret = NoRet

\* the loop reaches a cell whose iteration panics: the process ends.  A cell
\* of that kind lies outside the grid, is never marked affected and is
\* reached in every order of the loop.
UpdatePanic ==
    /\ pc = "loop"
    /\ \E c \in cells_to_check :
          /\ c \notin next_active_cells.affected_this_frame
          /\ Panics(c)
    /\ pc' = "panic"
    /\ UNCHANGED <<rules, grid, active_cells, new_grid, cells_to_check, next_active_cells,
                   prioritised_rules, fired, skipped, edits, scenario, call, ret>>


\* an iteration of 'cell_loop that does not panic; while a cell whose
\* iteration panics is pending the loop is bound to reach it
UpdateCellChecked ==
    /\ \A c \in cells_to_check :
          c \in next_active_cells.affected_this_frame \/ ~Panics(c)
    /\ UpdateCell

NextAnyActive == UpdateStart \/ UpdateCellChecked \/ UpdatePanic \/ UpdateFinish

SpecAnyActive == InitAnyActive /\ [][NextAnyActive]_vars

\* C23 as claimed: for any world built by CellWorld::new with width >= 1 and
\* height >= 1, any active set (coordinates outside the grid included) and any
\* list of rules accepted by Rule::new, CellWorld::update reaches no panic.
C23_TickNeverPanics == pc # "panic"

\* a tick panics only at an active cell with a coordinate of usize::MAX:
\* active cells as far as the far edge of the grid, which mouse_input can
\* mark, cause no panic
PanicsOnlyAtUsizeMax ==
    pc = "panic" =>
        \E c \in cells_to_check : c[1] = UsizeMax \/ c[2] = UsizeMax


-----------------------------------------------------------------------------
(* Claim C24: particles are compared by kind *)

\* a temperature other than the 20.0 of ParticleState::from_kind, in thousandths
Heated == 100000

\* the states of from_kind, and the same states heated
ParticleStates ==
    {ParticleStateFromKind(k) : k \in ParticleKind}
    \cup {[ParticleStateFromKind(k) EXCEPT !.temperature = Heated] : k \in ParticleKind}

\* Particle { kind, state } with the public fields set freely
Particles == {[kind |-> k, state |-> s] : k \in ParticleKind, s \in ParticleStates}

\* windows of one ParticleCell, empty or holding a particle
ParticleWindows == {<< <<c>> >> : c \in {EmptyCell} \cup Particles}

\* rules of one cell
CellPatterns == {<< <<o>> >> : o \in Occupancies}

ParticleCalls ==
    {[op |-> "Particle::eq", self |-> p, other |-> q] : p \in Particles, q \in Particles}
    \cup {[op |-> "window match",
           rule |-> MkRule(i, << MkOutput(i, PercentageNew(Unit)) >>), window |-> w] :
            i \in CellPatterns, w \in ParticleWindows}

InitParticle ==
    /\ call \in ParticleCalls
    /\ ret = NoRet
    /\ pc = "pure"
    /\ rules = "none"
    /\ grid = <<>>
    /\ active_cells = ActiveCellsNew
    /\ new_grid = <<>>
    /\ cells_to_check = {}
    /\ next_active_cells = ActiveCellsNew
    /\ prioritised_rules = <<>>
    /\ fired = {}
    /\ skipped = {}
    /\ edits = 0
    /\ scenario = [edits |-> 0, tools |-> {}]

ParticleEqCall ==
    /\ pc = "pure" /\ ret = NoRet /\ call.op = "Particle::eq"
    /\ ret' = Ok(ParticleEq(call.self, call.other))
    /\ UNCHANGED <<worldVars, call>>

\* update's match decision on a window: the cells are mapped to the kinds of
\* their particles and the rule is matched with the result
WindowMatchCall ==
    /\ pc = "pure" /\ ret = NoRet /\ call.op = "window match"
    /\ ret' = Ok(RuleMatches(call.rule, ParticleKindWindow(call.window)))
    /\ UNCHANGED <<worldVars, call>>

NextParticle == ParticleEqCall \/ WindowMatchCall

SpecParticle == InitParticle /\ [][NextParticle]_vars

\* the windows v and w hold particles of the same kinds at the same places
SameKinds(v, w) ==
    /\ Len(v) = Len(w)
    /\ \A i \in 1..Len(v) :
          /\ Len(v[i]) = Len(w[i])
          /\ \A j \in 1..Len(v[i]) : v[i][j].kind = w[i][j].kind

\* C24: two Particle values are equal exactly when their kinds are equal,
\* whatever their states; and a rule matches a window exactly when it matches
\* every window that holds particles of the same kinds in other states.
C24_ParticlesEqualByKind ==
    /\ Returned("Particle::eq") => (ret.val <=> call.self.kind = call.other.kind)
    /\ Returned("window match") =>
          \A w \in ParticleWindows :
              SameKinds(call.window, w) =>
                  RuleMatches(call.rule, ParticleKindWindow(w)) = ret.val

\* two particles of one kind in different states compare equal
C24_Witness ==
    /\ Returned("Particle::eq")
    /\ call.self.kind = call.other.kind
    /\ call.self.state # call.other.state
    /\ ret.val


-----------------------------------------------------------------------------
(* Claims C25, C26: Percentage over f32.  An f32 is a finite value in        *)
(* millionths, a NaN or an infinity; PercentageNew and Clamp above are the   *)
(* finite case.                                                              *)

Finite(v) == [class |-> "finite", val |-> v]
NaN == [class |-> "nan", val |-> 0]
Infinity == [class |-> "inf", val |-> 0]
NegInfinity == [class |-> "-inf", val |-> 0]

\* f32 negation, addition and subtraction
F32Neg(a) ==
    CASE a.class = "finite" -> Finite(0 - a.val)
      [] a.class = "inf" -> NegInfinity
      [] a.class = "-inf" -> Infinity
      [] OTHER -> NaN

F32Add(a, b) ==
    CASE a.class = "nan" \/ b.class = "nan" -> NaN
      [] a.class = "finite" /\ b.class = "finite" -> Finite(a.val + b.val)
      [] a.class = "finite" -> b
      [] b.class = "finite" -> a
      [] a.class = b.class -> a
      [] OTHER -> NaN

F32Sub(a, b) == F32Add(a, F32Neg(b))

\* the sign of a value that is not a NaN: -1, 0 or 1
F32Sign(a) ==
    CASE a.class = "inf" -> 1
      [] a.class = "-inf" -> 0 - 1
      [] a.val > 0 -> 1
      [] a.val < 0 -> 0 - 1
      [] OTHER -> 0

\* f32 multiplication: zero times an infinity is a NaN.  Each finite factor
\* is taken in thousandths, so that the product is again in millionths.
F32Mul(a, b) ==
    CASE a.class = "nan" \/ b.class = "nan" -> NaN
      [] a.class = "finite" /\ b.class = "finite" ->
            Finite((a.val \div 1000) * (b.val \div 1000))
      [] F32Sign(a) * F32Sign(b) = 0 -> NaN
      [] F32Sign(a) * F32Sign(b) > 0 -> Infinity
      [] OTHER -> NegInfinity

\* percent / 100.0
F32Div100(a) == IF a.class = "finite" THEN Finite(a.val \div 100) ELSE a

\* a <= b for values that are not NaN
F32Le(a, b) ==
    \/ a.class = "-inf"
    \/ b.class = "inf"
    \/ a.class = "finite" /\ b.class = "finite" /\ a.val <= b.val

\* f32::min and f32::max: a NaN operand is ignored
F32Min(a, b) ==
    IF a.class = "nan" THEN b
    ELSE IF b.class = "nan" THEN a
    ELSE IF F32Le(a, b) THEN a ELSE b

F32Max(a, b) ==
    IF a.class = "nan" THEN b
    ELSE IF b.class = "nan" THEN a
    ELSE IF F32Le(a, b) THEN b ELSE a

\* f32::clamp(0.0, 1.0): a NaN stays a NaN
F32Clamp01(a) ==
    CASE a.class = "nan" -> NaN
      [] a.class = "inf" -> Finite(Unit)
      [] a.class = "-inf" -> Finite(0)
      [] OTHER -> Finite(Clamp(a.val))

\* a faulty constructor that does not clamp
PercentageUnclamped(value) == value

\* Percentage::new on any f32
PercentageOfF32(value) == F32Clamp01(value)

\* Percentage::from_percent
PercentageFromPercent(percent) == PercentageOfF32(F32Div100(percent))

\* impl Mul<f32> for Percentage, impl Mul for Percentage
PercentageMulF32(self, rhs) == PercentageOfF32(F32Mul(self, rhs))
PercentageMul(self, rhs) == PercentageOfF32(F32Mul(self, rhs))

\* impl Add for Percentage
PercentageAdd(self, rhs) == PercentageOfF32(F32Min(F32Add(self, rhs), Finite(Unit)))

\* impl Sub for Percentage
PercentageSub(self, rhs) == PercentageOfF32(F32Max(F32Sub(self, rhs), Finite(0)))

\* impl Sum for Percentage on any f32 values
RECURSIVE F32SumSeq(_)
F32SumSeq(s) == IF s = <<>> THEN Finite(0) ELSE F32Add(s[1], F32SumSeq(Tail(s)))

PercentageSumF32(ps) == PercentageOfF32(F32SumSeq(ps))

\* f32 arguments: negative, zero, below EPSILON, inside (0, 1), one, above
\* one, 200.0, a NaN and the infinities
F32Inputs ==
    {Finite(v) : v \in {0 - (Unit \div 2), 0, EPSILON \div 2, 3 * (Unit \div 10),
                        7 * (Unit \div 10), 8 * (Unit \div 10), Unit,
                        3 * (Unit \div 2), 200 * Unit}}
    \cup {NaN, Infinity, NegInfinity}

\* arguments of from_percent: -50.0, 0.0, 75.0, 100.0, 150.0 and the others
PercentInputs ==
    {Finite(v) : v \in {0 - 50 * Unit, 0, 75 * Unit, 100 * Unit, 150 * Unit}}
    \cup {NaN, Infinity, NegInfinity}

\* the Percentage values Percentage::new returns for these arguments
Percentages == {PercentageOfF32(v) : v \in F32Inputs}

PercentageCalls ==
    {[op |-> "Percentage::new", value |-> v] : v \in F32Inputs}
    \cup {[op |-> "Percentage::from_percent", percent |-> v] : v \in PercentInputs}
    \cup {[op |-> "Mul<f32>", self |-> p, rhs |-> v] : p \in Percentages, v \in F32Inputs}
    \cup {[op |-> op, self |-> p, rhs |-> q] :
            op \in {"Mul", "Add", "Sub"}, p \in Percentages, q \in Percentages}
    \cup {[op |-> "Sum", iter |-> s] : s \in SeqsUpTo(Percentages, MaxOutputs)}

InitPercentage ==
    /\ call \in PercentageCalls
    /\ ret = NoRet
    /\ pc = "pure"
    /\ rules = "none"
    /\ grid = <<>>
    /\ active_cells = ActiveCellsNew
    /\ new_grid = <<>>
    /\ cells_to_check = {}
    /\ next_active_cells = ActiveCellsNew
    /\ prioritised_rules = <<>>
    /\ fired = {}
    /\ skipped = {}
    /\ edits = 0
    /\ scenario = [edits |-> 0, tools |-> {}]

PercentageNewCall ==
    /\ pc = "pure" /\ ret = NoRet /\ call.op = "Percentage::new"
    /\ ret' = Ok(PercentageOfF32(call.value))
    /\ UNCHANGED <<worldVars, call>>

FromPercentCall ==
    /\ pc = "pure" /\ ret = NoRet /\ call.op = "Percentage::from_percent"
    /\ ret' = Ok(PercentageFromPercent(call.percent))
    /\ UNCHANGED <<worldVars, call>>

MulF32Call ==
    /\ pc = "pure" /\ ret = NoRet /\ call.op = "Mul<f32>"
    /\ ret' = Ok(PercentageMulF32(call.self, call.rhs))
    /\ UNCHANGED <<worldVars, call>>

MulCall ==
    /\ pc = "pure" /\ ret = NoRet /\ call.op = "Mul"
    /\ ret' = Ok(PercentageMul(call.self, call.rhs))
    /\ UNCHANGED <<worldVars, call>>

AddCall ==
    /\ pc = "pure" /\ ret = NoRet /\ call.op = "Add"
    /\ ret' = Ok(PercentageAdd(call.self, call.rhs))
    /\ UNCHANGED <<worldVars, call>>

SubCall ==
    /\ pc = "pure" /\ ret = NoRet /\ call.op = "Sub"
    /\ ret' = Ok(PercentageSub(call.self, call.rhs))
    /\ UNCHANGED <<worldVars, call>>

SumCall ==
    /\ pc = "pure" /\ ret = NoRet /\ call.op = "Sum"
    /\ ret' = Ok(PercentageSumF32(call.iter))
    /\ UNCHANGED <<worldVars, call>>

NextPercentage ==
    \/ PercentageNewCall \/ FromPercentCall \/ MulF32Call \/ MulCall
    \/ AddCall \/ SubCall \/ SumCall

SpecPercentage == InitPercentage /\ [][NextPercentage]_vars

\* the value lies in [0, 1]
InUnit(p) == p.class = "finite" /\ 0 <= p.val /\ p.val <= Unit

\* a call of one of the operations of Percentage has returned
PercentageReturned == pc = "pure" /\ call \in PercentageCalls /\ ret # NoRet

\* C25 as claimed: the result of new, from_percent, Add, Sub, Mul (by a scalar
\* or by another Percentage) and Sum lies in [0, 1] for every input.
C25_ResultInUnitInterval ==
    PercentageReturned => InUnit(ret.val)

\* apart from NaN every result lies in [0, 1], and new and from_percent
\* return a NaN exactly for a NaN argument
InUnitOrNaN ==
    PercentageReturned =>
        /\ InUnit(ret.val) \/ ret.val = NaN
        /\ call.op = "Percentage::new" => (ret.val = NaN <=> call.value = NaN)
        /\ call.op = "Percentage::from_percent" => (ret.val = NaN <=> call.percent = NaN)
        /\ (call.op = "Mul<f32>" /\ InUnit(call.self)) =>
              (ret.val = NaN <=>
                  \/ call.rhs = NaN
                  \/ call.self.val = 0 /\ call.rhs \in {Infinity, NegInfinity})
        /\ (call.op \in {"Mul", "Add", "Sub"} /\ InUnit(call.self) /\ InUnit(call.rhs)) =>
              InUnit(ret.val)
        /\ (call.op = "Sum" /\ \A i \in 1..Len(call.iter) : InUnit(call.iter[i])) =>
              InUnit(ret.val)


\* C26: on Percentage values in [0, 1], a + b is min(1, a + b) and a - b is
\* max(0, a - b); a * s for a finite scalar s is the product clamped to
\* [0, 1].  So 0.7 + 0.8 is 1, 0.7 - 0.8 is 0 and 0.7 * 200 is 1.
C26_ArithmeticSaturates ==
    PercentageReturned =>
        /\ (call.op = "Add" /\ InUnit(call.self) /\ InUnit(call.rhs)) =>
              ret.val = Finite(Min(Unit, call.self.val + call.rhs.val))
        /\ (call.op = "Sub" /\ InUnit(call.self) /\ InUnit(call.rhs)) =>
              ret.val = Finite(Max(0, call.self.val - call.rhs.val))
        /\ (call.op = "Mul<f32>" /\ InUnit(call.self) /\ call.rhs.class = "finite") =>
              ret.val = Finite(Max(0, Min(Unit, F32Mul(call.self, call.rhs).val)))
        /\ (call.op = "Add" /\ call.self = Finite(7 * (Unit \div 10))
                /\ call.rhs = Finite(8 * (Unit \div 10))) => ret.val = Finite(Unit)
        /\ (call.op = "Sub" /\ call.self = Finite(7 * (Unit \div 10))
                /\ call.rhs = Finite(8 * (Unit \div 10))) => ret.val = Finite(0)
        /\ (call.op = "Mul<f32>" /\ call.self = Finite(7 * (Unit \div 10))
                /\ call.rhs = Finite(200 * Unit)) => ret.val = Finite(Unit)

\* 0.7 * 200.0 has returned 1
C26_Witness ==
    /\ PercentageReturned
    /\ call.op = "Mul<f32>"
    /\ call.self = Finite(7 * (Unit \div 10))
    /\ call.rhs = Finite(200 * Unit)
    /\ ret.val = Finite(Unit)


-----------------------------------------------------------------------------
(* Claim C27: the placement of the rule window *)

\* the w x h rectangle of g whose top-left cell is (cx, cy)
Rectangle(g, cx, cy, w, h) ==
    [r \in 1..h |-> [c \in 1..w |-> g[cy + r][cx + c]]]

\* C27: for an active cell (x, y) and a rule of w x h cells the window's
\* top-left corner is (max(0, x - w div 2), max(0, y - h div 2)).  When the
\* corner plus (w, h) reaches past the grid the rule is not evaluated there
\* (it cannot match or fire); otherwise the window is exactly the w x h
\* rectangle at that corner, which is also where a firing writes.
C27_WindowPlacement ==
    pc = "loop" =>
        \A k \in 1..Len(RuleList(rules)) :
            LET rule == RuleList(rules)[k].rule
                w == RuleDimensions(rule).width
                h == RuleDimensions(rule).height
            IN  \A x \in 0..MaxWidth, y \in 0..MaxHeight :
                    LET cx == Max(0, x - w \div 2)
                        cy == Max(0, y - h \div 2)
                        past == \/ cx + w > Dimensions(grid).width
                                \/ cy + h > Dimensions(grid).height
                    IN  /\ past => /\ ~MatchesAt(grid, x, y, rule)
                                   /\ \A f \in fired :
                                         ~(f.anchor = <<x, y>> /\ f.rule = k)
                        /\ ~past =>
                              /\ Evaluated(grid, x, y, rule)
                              /\ Window(grid, x, y, rule) = Rectangle(grid, cx, cy, w, h)
                              /\ \A f \in fired :
                                    (f.anchor = <<x, y>> /\ f.rule = k) =>
                                        f.cells = {<<i, j>> : i \in cx..(cx + w - 1),
                                                              j \in cy..(cy + h - 1)}

\* a rule two cells wide has fired at an anchor in column 0, where the corner
\* is held at 0, while for another active cell of the tick the window of a
\* rule would reach past the grid
C27_Witness ==
    /\ pc = "loop"
    /\ \E f \in fired :
          /\ f.anchor[1] = 0
          /\ RuleDimensions(RuleList(rules)[f.rule].rule).width = 2
    /\ \E c \in next_active_cells.cells, k \in 1..Len(RuleList(rules)) :
          ~Evaluated(grid, c[1], c[2], RuleList(rules)[k].rule)


-----------------------------------------------------------------------------
(* Claim C28: the active set after a tick *)

\* the cells (i, j) of g with x - 1 <= i <= x + 1 and y - 1 <= j <= y + 2
Reach(g, x, y) ==
    {c \in (0..(Dimensions(g).width - 1)) \X (0..(Dimensions(g).height - 1)) :
        /\ x - 1 <= c[1] /\ c[1] <= x + 1
        /\ y - 1 <= c[2] /\ c[2] <= y + 2}

\* C28: when a tick ends, the active set is exactly the union, over the
\* anchors (x, y) of the tick's firings, of the cells (i, j) inside the grid
\* with x - 1 <= i <= x + 1 and y - 1 <= j <= y + 2; an active cell of the
\* tick outside this union is no longer active.
C28_ActiveSetAfterTick ==
    [][TickEnds =>
          LET union == UNION {Reach(grid, f.anchor[1], f.anchor[2]) : f \in fired}
          IN  /\ active_cells'.cells = union
              /\ \A c \in next_active_cells.cells \ union : c \notin active_cells'.cells]_vars

\* every active cell of the tick has been processed, a rule has fired, and
\* an active cell of the tick lies outside the reach of every firing
C28_Witness ==
    /\ pc = "loop"
    /\ cells_to_check = {}
    /\ fired # {}
    /\ next_active_cells.cells \ UNION {Reach(grid, f.anchor[1], f.anchor[2]) : f \in fired}
          # {}
    /\ \E f \in fired : f.anchor[2] + 2 < Dimensions(grid).height


-----------------------------------------------------------------------------
(* Claim C29: a firing marks its window as affected *)

-----------------------------------------------------------------------------
(* Claim C30: the rule order is a permutation; unprioritized rules go anywhere *)

\* C30: the rule order of a tick is a permutation of the supplied rule list,
\* and an unprioritized rule can end up at any position of it: before the rule
\* of the smallest priority value, and between two rules of the same priority.
C30_OrderIsPermutation ==
    LET rs == RuleList(rules)
        n == Len(rs)
    IN  /\ pc = "loop" =>
              /\ Len(prioritised_rules) = n
              /\ \A i \in 1..n : \E pos \in 1..n : prioritised_rules[pos] = i
        /\ \A i \in 1..n :
              ~rs[i].priority.some =>
                  \A pos \in 1..n : \E order \in RuleOrders(rs) : order[pos] = i
        /\ \A order \in RuleOrders(rs) :
              /\ Len(order) = n
              /\ {order[pos] : pos \in 1..n} = 1..n

\* a tick whose order has the unprioritized rule between the two rules that
\* share the smallest priority value
C30_Witness ==
    /\ pc = "loop"
    /\ Len(prioritised_rules) >= 3
    /\ ~RuleList(rules)[prioritised_rules[2]].priority.some
    /\ Tied(RuleList(rules), prioritised_rules[1], prioritised_rules[3])
    /\ \A i \in 1..Len(RuleList(rules)) :
          RuleList(rules)[i].priority.some =>
              RuleList(rules)[prioritised_rules[1]].priority.val
                  <= RuleList(rules)[i].priority.val


-----------------------------------------------------------------------------
(* Claim C31: set_subgrid with a source that reaches past the edge *)

\* C31: set_subgrid(x, y, src) with src of w x h cells, no larger than the
\* whole grid of W x H cells but reaching past its edge from (x, y) (x + w > W
\* or y + h > H), returns Ok, writes src cell (i, j) to every destination cell
\* (x + j, y + i) that lies inside the grid, and leaves every other cell and
\* the dimensions as they were.  A successful set_subgrid never changes a cell
\* outside the rectangle [x, x + w) x [y, y + h).
C31_SetSubgridClipsAtEdge ==
    Returned("Grid::set_subgrid") =>
        LET w == Dimensions(call.grid).width
            h == Dimensions(call.grid).height
            W == Dimensions(call.self).width
            H == Dimensions(call.self).height
            inside(cx, cy) == /\ call.x <= cx /\ cx < call.x + w
                              /\ call.y <= cy /\ cy < call.y + h
        IN  /\ (/\ w <= W /\ h <= H
                /\ (call.x + w > W \/ call.y + h > H)) =>
                  /\ ret = Ok("unit")
                  /\ Dimensions(grid) = Dimensions(call.self)
                  /\ Len(grid) = H
                  /\ \A cy \in 0..(H - 1) :
                        /\ Len(grid[cy + 1]) = W
                        /\ \A cx \in 0..(W - 1) :
                              grid[cy + 1][cx + 1] =
                                  IF inside(cx, cy)
                                  THEN call.grid[cy - call.y + 1][cx - call.x + 1]
                                  ELSE call.self[cy + 1][cx + 1]
            /\ ret.ok =>
                  /\ Len(grid) = H
                  /\ \A cy \in 0..(H - 1), cx \in 0..(W - 1) :
                        ~inside(cx, cy) => grid[cy + 1][cx + 1] = call.self[cy + 1][cx + 1]

\* a source of 2 x 2 cells written at (1, 2) into a grid of 2 x 3 cells: only
\* the cell (1, 2) takes a source cell, three source cells fall off the grid
C31_Witness ==
    /\ Returned("Grid::set_subgrid") /\ ret.ok
    /\ call.x = 1 /\ call.y = 2
    /\ Dimensions(call.grid) = [width |-> 2, height |-> 2]
    /\ Dimensions(call.self) = [width |-> 2, height |-> 3]
    /\ grid[3][2] = call.grid[1][1]
    /\ grid[3][1] = call.self[3][1]


-----------------------------------------------------------------------------
(* Claim C32: the grid returned by get_subgrid *)

\* C32 as claimed: every Grid that get_subgrid(x, y, w, h) returns as Ok has
\* at least one row and rows of equal length (the invariant of Grid::new), has
\* exactly w x h cells, and its cell (i, j) is the source cell (x + j, y + i).
C32_SubgridIsValidGrid ==
    (Returned("Grid::get_subgrid") /\ ret.ok) =>
        /\ GridValidate(ret.val).ok
        /\ Dimensions(ret.val) = [width |-> call.width, height |-> call.height]
        /\ \A i \in 0..(call.height - 1), j \in 0..(call.width - 1) :
              ret.val[i + 1][j + 1] = call.self[call.y + i + 1][call.x + j + 1]

\* get_subgrid never fails; the result is the part of the rectangle that lies
\* inside the grid, so the claim's three properties hold exactly when the
\* rectangle has a row and lies inside the grid
SubgridIsClippedRectangle ==
    Returned("Grid::get_subgrid") =>
        LET W == Dimensions(call.self).width
            H == Dimensions(call.self).height
            rows == Max(0, Min(call.height, H - call.y))
            cols == Max(0, Min(call.width, W - call.x))
        IN  /\ ret.ok
            /\ grid = call.self
            /\ Len(ret.val) = rows
            /\ \A i \in 1..rows :
                  /\ Len(ret.val[i]) = cols
                  /\ \A j \in 1..cols :
                        ret.val[i][j] = call.self[call.y + i][call.x + j]
            /\ (/\ GridValidate(ret.val).ok
                /\ Dimensions(ret.val) = [width |-> call.width, height |-> call.height])
                  <=> (/\ call.height >= 1
                       /\ call.y + call.height <= H
                       /\ call.x + call.width <= W \/ (call.width = 0 /\ call.x > W))


-----------------------------------------------------------------------------
(* Claim C33: a tick keeps the number of particles of each kind *)

\* the number of cells of g that hold a particle of the kind
CountKind(g, kind) ==
    Cardinality({c \in (1..Len(g)) \X (1..Dimensions(g).width) : g[c[1]][c[2]].kind = kind})

\* C33 as claimed: with the built-in rules a tick never changes the number of
\* particles of each kind in the grid, whatever the grid, the active set, the
\* rule order and the order in which the active cells are processed.
C33_TickKeepsParticleCounts ==
    [][TickEnds => \A kind \in ParticleKind : CountKind(grid', kind) = CountKind(grid, kind)]_vars


-----------------------------------------------------------------------------
(* Claim C34: the outcome of a tick and the order of the active cells.       *)
(* Every tick is run twice on the same grid and active set with the same     *)
(* rule order (each sand rule has one output, so the output choices are the  *)
(* same too); only the order in which 'cell_loop takes the cells differs.    *)
(* ret holds the outcome of the first run while the second one runs.         *)

InitReplay ==
    InitWorld(1..MaxWidth, 1..MaxHeight, {"SandRules"}, MaxEdits, {"Sand", "Stone"}, {})

\* the first run has visited every cell: its outcome is kept, and update is
\* entered again on the world as it was, with the rule order of the first run
UpdateAgain ==
    /\ pc = "loop"
    /\ cells_to_check = {}
    /\ ret = NoRet
    /\ ret' = Ok([grid |-> new_grid,
                  active_cells |-> ActiveCellsUpdate(next_active_cells),
                  fired |-> fired])
    /\ new_grid' = grid
    /\ cells_to_check' = CellsToCheck(next_active_cells)
    /\ next_active_cells' = MarkActive(ActiveCellsNew, next_active_cells.cells)
    /\ fired' = {}
    /\ skipped' = {}
    /\ UNCHANGED <<rules, grid, active_cells, prioritised_rules, pc, edits, scenario, call>>

\* the end of the second run: the end of CellWorld::update
UpdateFinishAgain ==
    /\ pc = "loop"
    /\ cells_to_check = {}
    /\ ret # NoRet
    /\ ret' = NoRet
    /\ grid' = new_grid
    /\ active_cells' = ActiveCellsUpdate(next_active_cells)
    /\ pc' = "idle"
    /\ new_grid' = <<>>
    /\ next_active_cells' = ActiveCellsNew
    /\ prioritised_rules' = <<>>
    /\ fired' = {}
    /\ skipped' = {}
    /\ UNCHANGED <<rules, cells_to_check, edits, scenario, call>>

NextReplay == MouseInput \/ UpdateStart \/ UpdateCell \/ UpdateAgain \/ UpdateFinishAgain

SpecReplay == InitReplay /\ [][NextReplay]_vars

\* both runs of a tick have visited every cell
BothRunsDone == pc = "loop" /\ cells_to_check = {} /\ ret # NoRet

\* C34 as claimed: for a fixed grid, active set, rule order and output
\* choices, the grid and the active set after update are the same whatever
\* the order in which the active cells are taken.
C34_OutcomeIndependentOfCellOrder ==
    BothRunsDone =>
        /\ new_grid = ret.val.grid
        /\ ActiveCellsUpdate(next_active_cells) = ret.val.active_cells

\* the windows of the firings of a run do not overlap
DisjointWindows(fs) == \A f \in fs, g \in fs : f # g => f.cells \cap g.cells = {}

\* the order of the cells matters only through overlapping windows: two runs
\* whose firings each have disjoint windows end alike
SameOutcomeWithoutOverlap ==
    (BothRunsDone /\ DisjointWindows(fired) /\ DisjointWindows(ret.val.fired)) =>
        /\ new_grid = ret.val.grid
        /\ ActiveCellsUpdate(next_active_cells) = ret.val.active_cells


-----------------------------------------------------------------------------
(* Claim C35: a tick changes only the windows of the rules that fired *)

\* C35: when a tick ends, every cell that lies in the write window of no rule
\* fired in that tick holds the particle (kind and state) it held before the
\* tick, or is empty as before.
C35_OnlyFiredWindowsChange ==
    [][TickEnds =>
          /\ Dimensions(grid') = Dimensions(grid)
          /\ \A y \in 0..(Dimensions(grid).height - 1), x \in 0..(Dimensions(grid).width - 1) :
                (\A f \in fired : <<x, y>> \notin f.cells)
                    => grid'[y + 1][x + 1] = grid[y + 1][x + 1]]_vars

\* a tick is about to end in which a rule has fired and changed the grid,
\* while a particle lies outside the window of every firing
C35_Witness ==
    /\ pc = "loop"
    /\ cells_to_check = {}
    /\ fired # {}
    /\ new_grid # grid
    /\ \E y \in 0..(Dimensions(grid).height - 1), x \in 0..(Dimensions(grid).width - 1) :
          /\ \A f \in fired : <<x, y>> \notin f.cells
          /\ grid[y + 1][x + 1].kind # "None"
          /\ new_grid[y + 1][x + 1] = grid[y + 1][x + 1]


-----------------------------------------------------------------------------
(* Claim C36: a world of sand and stone comes to rest.  The world starts     *)
(* with any content of sand and stone and is ticked for ever, never edited.  *)

\* every grid of MaxWidth x MaxHeight cells that hold sand, stone or nothing
SandStoneGrids ==
    [1..MaxHeight -> [1..MaxWidth -> {EmptyCell, CellOf("Sand"), CellOf("Stone")}]]

\* the active sets a world starts with: one cell, or all cells
StartActiveSets ==
    LET all == (0..(MaxWidth - 1)) \X (0..(MaxHeight - 1))
    IN  {{c} : c \in all} \cup {all}

InitAtRest ==
    /\ rules = "SandRules"
    /\ grid \in SandStoneGrids
    /\ active_cells \in {MarkActive(ActiveCellsNew, cs) : cs \in StartActiveSets}
    /\ new_grid = <<>>
    /\ cells_to_check = {}
    /\ next_active_cells = ActiveCellsNew
    /\ prioritised_rules = <<>>
    /\ pc = "idle"
    /\ fired = {}
    /\ skipped = {}
    /\ edits = 0
    /\ scenario = [edits |-> 0, tools |-> {}]
    /\ call = [op |-> "none"]
    /\ ret = NoRet

NextTicks == UpdateStart \/ UpdateCell \/ UpdateFinish

\* the tick is run again and again, and a tick that began runs to its end
FairTicks ==
    /\ InitAtRest /\ [][NextTicks]_vars
    /\ WF_vars(UpdateStart) /\ LoopFair /\ WF_vars(UpdateFinish)

\* C36: with the built-in rules, a world that holds only sand and stone and is
\* not edited reaches, after finitely many ticks, a state from which the
\* active set is empty for ever and the grid never changes again.
C36_SandWorldComesToRest ==
    /\ <>[]Quiet
    /\ <>[][grid' = grid]_grid


\* an unedited world has come to rest with sand and stone in it: the active
\* set is empty and no rule matches at any cell
C36_Witness ==
    /\ pc = "idle"
    /\ edits = 0 /\ scenario.edits = 0
    /\ Quiet
    /\ CountKind(grid, "Sand") >= 2
    /\ CountKind(grid, "Stone") >= 1
    /\ \A x \in 0..(MaxWidth - 1), y \in 0..(MaxHeight - 1), k \in 1..Len(SandRules) :
          ~MatchesAt(grid, x, y, SandRules[k].rule)


-----------------------------------------------------------------------------
(* Claim C37: after a tick the active set lies inside the grid *)

\* the coordinate is a cell of g
InsideGrid(g, c) == c[1] < Dimensions(g).width /\ c[2] < Dimensions(g).height

\* C37: with rules of width and height at least 1, every coordinate of the
\* active set after an update lies inside the grid, also when coordinates
\* outside the grid were active before the tick; and no rule fires at an
\* active coordinate outside the grid.
C37_ActiveSetInsideGridAfterTick ==
    [][(\A k \in 1..Len(RuleList(rules)) :
            /\ RuleDimensions(RuleList(rules)[k].rule).width >= 1
            /\ RuleDimensions(RuleList(rules)[k].rule).height >= 1)
        => /\ TickEnds => \A c \in active_cells'.cells : InsideGrid(grid', c)
           /\ \A f \in fired' : InsideGrid(grid, f.anchor)
           /\ pc = "loop" =>
                 \A c \in next_active_cells.cells, k \in 1..Len(RuleList(rules)) :
                     ~InsideGrid(grid, c) =>
                         ~MatchesAt(grid, c[1], c[2], RuleList(rules)[k].rule)]_vars

\* a tick is about to end in which coordinates outside the grid were active
\* and a rule has fired at a cell on the grid's far edge
C37_Witness ==
    /\ pc = "loop"
    /\ cells_to_check = {}
    /\ \E c \in next_active_cells.cells : ~InsideGrid(grid, c)
    /\ \E f \in fired :
          \/ f.anchor[1] = Dimensions(grid).width - 1
          \/ f.anchor[2] = Dimensions(grid).height - 1
    /\ next_active_cells.to_check_next_frame # {}


-----------------------------------------------------------------------------
(* Claim C38: the accumulators are empty between operations *)

\* C38: between operations (after CellWorld::new, after an edit, after an
\* update) to_check_next_frame and affected_this_frame are empty, so a tick
\* starts with no cell marked affected, and a cell that is skipped as affected
\* lies in the window of a rule fired in the same tick.
C38_AccumulatorsEmptyBetweenOperations ==
    [][/\ pc' = "idle" =>
             /\ active_cells'.to_check_next_frame = {}
             /\ active_cells'.affected_this_frame = {}
       /\ (pc = "idle" /\ pc' = "loop") =>
             /\ next_active_cells'.to_check_next_frame = {}
             /\ next_active_cells'.affected_this_frame = {}
       /\ \A c \in skipped' : \E f \in fired' : c \in f.cells]_vars

\* a tick is about to end with both accumulators filled and with an active
\* cell skipped as affected
C38_Witness ==
    /\ pc = "loop"
    /\ cells_to_check = {}
    /\ next_active_cells.to_check_next_frame # {}
    /\ next_active_cells.affected_this_frame # {}
    /\ skipped # {}


-----------------------------------------------------------------------------
(* Claim C39: a rule has an output to choose *)

\* C39: Rule::new with an empty output list fails with
\* OutputNotInProbabilisticUnity; so every rule Rule::new accepts has at least
\* one output, and among its outputs one of positive weight for the weighted
\* choice of choose_rule_output.
C39_AcceptedRuleHasAnOutput ==
    Returned("Rule::new") =>
        /\ call.output = <<>> => ret = Err("OutputNotInProbabilisticUnity")
        /\ ret.ok =>
              /\ Len(ret.val.output) >= 1
              /\ \A o \in 1..Len(ret.val.output) : ret.val.output[o].probability >= 0
              /\ Choosable(ret.val) # {}

\* Rule::new has refused an input of one cell with no output at all
C39_Witness ==
    /\ Returned("Rule::new")
    /\ call.output = <<>>
    /\ Dimensions(call.input) = [width |-> 1, height |-> 1]
    /\ ret = Err("OutputNotInProbabilisticUnity")


-----------------------------------------------------------------------------
(* Claim C40: the dimensions of the grid never change *)

\* g has rows of one length and at least one row
Rectangular(g) == Len(g) >= 1 /\ \A r \in 1..Len(g) : Len(g[r]) = Len(g[1])

\* C40: through every edit and every update the grid keeps the width and the
\* height CellWorld::new gave it, and every row has that width; the shadow
\* grid of a tick, which becomes the grid, has them too.
C40_DimensionsNeverChange ==
    [][/\ Rectangular(grid')
       /\ Len(grid') = Len(grid)
       /\ Len(grid'[1]) = Len(grid[1])
       /\ Dimensions(grid') = Dimensions(grid)
       /\ pc' = "loop" =>
             /\ Rectangular(new_grid')
             /\ Dimensions(new_grid') = Dimensions(grid)]_vars

\* an edited world of MaxWidth x MaxHeight cells at the end of a tick in which
\* a rule narrower than the grid and a rule as wide as the grid have fired
C40_Witness ==
    /\ pc = "loop"
    /\ cells_to_check = {}
    /\ edits >= 1
    /\ Dimensions(grid) = [width |-> MaxWidth, height |-> MaxHeight]
    /\ Dimensions(new_grid) = [width |-> MaxWidth, height |-> MaxHeight]
    /\ new_grid # grid
    /\ \E f \in fired, g \in fired :
          /\ RuleDimensions(RuleList(rules)[f.rule].rule).width < MaxWidth
          /\ RuleDimensions(RuleList(rules)[g.rule].rule).width = MaxWidth


====
